---- MODULE Spec2Model ----
(***************************************************************************)
(* A model of the AWX client core of autosphere-mcp-golang:                *)
(*   - the TTL cache (package cache): Get/Set/Delete/Clear/Close and the   *)
(*     background sweeper, at the granularity of its lock and statistics   *)
(*     steps;                                                              *)
(*   - the AWX client's cached operations (internal/awx/client.go);        *)
(*   - the job launcher (internal/awx/job_launcher.go).                    *)
(*                                                                         *)
(* Text is a sequence of atoms.  An atom is either one decimal digit       *)
(* ("0".."9") or a chunk of literal text.  Literal chunks are cut so that  *)
(* a chunk never holds a digit of a numeric needle and holds a textual     *)
(* needle ("not found", ...) only when the chunk is exactly that needle;   *)
(* strings.Contains is then subsequence search over atoms.                 *)
(***************************************************************************)
EXTENDS Integers, Sequences, FiniteSets, TLC

VARIABLES
    now,        \* wall clock, in seconds (time.Now())
    advances,   \* how many times the clock has been advanced (bounds the run)
    items,      \* Cache.items: key -> [value, expiration]
    stats,      \* Cache.stats: hits, misses, sets, evictions, currentSize
    running,    \* Cache.running
    stopClosed, \* Cache.stopCh has been closed
    closes,     \* how many times close(stopCh) was executed
    cmu,        \* Cache.mu: [writer, readers]
    cpc,        \* position of each goroutine calling the cache directly
    cloc,       \* its locals: op, key, value, ttl, ok, got, at
    calls,      \* number of cache calls started (bounds the run)
    getsDone,   \* number of Get calls that have returned
    spc,        \* position of the sweeper goroutine (cleanupExpired)
    nextTick,   \* when ticker.C next delivers
    sweepN,     \* evicted count carried between the sweeper's steps
    baseURL,    \* Client.baseURL
    srvTemplates, \* backend: the job templates, in list order
    srvJob,     \* backend: lifecycle state of each job
    wpc,        \* position of each invocation worker in its client operation
    wloc,       \* the operation's arguments, reply in flight and result
    ops,        \* number of client operations started
    budget,     \* how many client operations the run may start
    reported,   \* the state each job's latest successful status poll returned
    lctx,       \* the ctx given to Launch: cancelled or not, and at which stage
    promItems,  \* the Prometheus client's cache: key -> [value, expiration]
    promStats,  \* that cache's statistics
    ppc,        \* position of the caller of the Prometheus client
    ploc,       \* its operation: query, reply in flight, result
    promRequests, \* requests sent to Prometheus
    plast,      \* per query, the latest successful instant fetch: when, what
    pops,       \* Prometheus client operations started
    healthOut,  \* the latest CheckHealth call: its arguments and output
    scaleOut,   \* the latest Autoscale call: its arguments, output and error
    statsOut,   \* the latest GetStats call: its number and the snapshot it returned
    toolOut,    \* the latest tool call: the tool, its raw arguments, its result
    cancelOut,  \* the outputs the successful CancelJob calls returned, per job
    token,      \* Client.token, a string header: [ptr, len]
    username,   \* Client.username
    password,   \* Client.password
    apc,        \* position of each goroutine running authenticate
    aloc,       \* its locals: endpoints contacted, token received, error
    authProbes, \* Basic-Auth probes sent by makeRequest
    rlist,      \* template list handed to the two name-or-id lookups
    rl,         \* resolveTemplate's results so far: identifier -> result
    rc,         \* GetJobTemplateByName's results so far: identifier -> result
    createdSince, \* a CreateJobTemplate succeeded and no GetJobTemplates began since
    lpc,        \* position of the Launch call
    lopt,       \* LaunchJobOptions
    ltpl,       \* the resolved template: templateID, templateName
    lprobe,     \* what the permission probe came to
    lastOutcome, \* what the last launch POST came to
    lastErr,    \* executeLaunchWithRetry's lastErr, as text
    attempts,   \* launch POSTs issued by this Launch
    delays,     \* time.Sleep(retryDelay) calls made by this Launch
    probes,     \* permission probes issued by this Launch
    fetches,    \* template list requests issued by this Launch
    lres,       \* what Launch returned
    launches    \* Launch calls started (bounds the run)

cacheVars == <<items, stats, running, stopClosed, closes, cmu, cpc, cloc,
               calls, getsDone, spc, nextTick, sweepN>>
clientVars == <<baseURL, srvTemplates, srvJob, wpc, wloc, ops, budget, createdSince>>
launchVars == <<lpc, lopt, ltpl, lprobe, lastOutcome, lastErr, attempts, delays,
                probes, fetches, lres, launches, lctx>>
authVars == <<token, username, password, apc, aloc, authProbes>>
resolveVars == <<rlist, rl, rc>>
pollVars == <<reported, cancelOut>>
facadeVars == <<scaleOut, healthOut, toolOut, statsOut>>
svcVars == <<promItems, promStats, ppc, ploc, promRequests, plast, pops>>
vars == <<now, advances, cacheVars, clientVars, launchVars, authVars, resolveVars,
          pollVars, svcVars, facadeVars>>

(***************************************************************************)
(* Text                                                                    *)
(***************************************************************************)
Digits == <<"0", "1", "2", "3", "4", "5", "6", "7", "8", "9">>

\* strconv.Itoa / fmt %d for n >= 0
RECURSIVE Itoa(_)
Itoa(n) == IF n < 10 THEN <<Digits[n + 1]>>
           ELSE Itoa(n \div 10) \o <<Digits[(n % 10) + 1]>>

\* strings.Contains(s, sub)
Contains(s, sub) ==
    \E i \in 0..(Len(s) - Len(sub)) :
        \A j \in 1..Len(sub) : s[i + j] = sub[j]

(***************************************************************************)
(* TTL cache (package cache)                                               *)
(***************************************************************************)
None == "none"
NoValue == "nil"

\* Bounds of the cache exploration
MaxAdvances == 2
MaxCalls == 3

Threads == {"t1", "t2"}
Keys == {<<"k1">>, <<"k2">>}
Values == {"v1", "v2"}
TTLs == {0, 1}
CacheDeltas == {1, 60}

\* ticker := time.NewTicker(time.Minute)
SweepPeriod == 60

\* &Statistics{}
ZeroStats == [hits |-> 0, misses |-> 0, sets |-> 0, evictions |-> 0, currentSize |-> 0]

\* make(map[string]*cacheItem)
EmptyItems == [k \in {} |-> [value |-> NoValue, expiration |-> 0]]

\* an expiry test that also fires at the expiry instant
Expired_atInstant(item, t) == t >= item.expiration

\* time.Now().After(item.expiration)
Expired(item, t) == t > item.expiration

\* a Set that keeps the entry a key already has
Store_ifAbsent(its, k, v, t, ttl) ==
    [x \in (DOMAIN its) \cup {k} |->
        IF x \in DOMAIN its THEN its[x] ELSE [value |-> v, expiration |-> t + ttl]]

\* c.items[key] = &cacheItem{value, time.Now().Add(ttl)}
Store(its, k, v, t, ttl) ==
    [x \in (DOMAIN its) \cup {k} |->
        IF x = k THEN [value |-> v, expiration |-> t + ttl] ELSE its[x]]

\* delete(c.items, key)
Remove(its, k) == [x \in (DOMAIN its) \ {k} |-> its[x]]

\* the keys removeExpired deletes at time t
ExpiredKeys(its, t) == {k \in DOMAIN its : Expired(its[k], t)}

\* the map after removeExpired's loop
Swept(its, t) == [x \in (DOMAIN its) \ ExpiredKeys(its, t) |-> its[x]]

\* the outcome of Get's lookup at time t: [ok, value]
Lookup(its, k, t) ==
    IF k \notin DOMAIN its THEN [ok |-> FALSE, value |-> NoValue]
    ELSE IF Expired(its[k], t) THEN [ok |-> FALSE, value |-> NoValue]
    ELSE [ok |-> TRUE, value |-> its[k].value]

recordHit(s) == [s EXCEPT !.hits = @ + 1]
\* a miss that is not counted
recordMiss_dropped(s) == s

recordMiss(s) == [s EXCEPT !.misses = @ + 1]
recordSet(s) == [s EXCEPT !.sets = @ + 1]
recordEvictions(s, n) == [s EXCEPT !.evictions = @ + n]
\* a size update that is lost
updateSize_lost(s, n) == s

updateSize(s, n) == [s EXCEPT !.currentSize = n]

\* Statistics.snapshot (HitRate as an integer percentage)
snapshot(s) ==
    [Hits |-> s.hits, Misses |-> s.misses, Sets |-> s.sets,
     Evictions |-> s.evictions, CurrentSize |-> s.currentSize,
     HitRate |-> IF s.hits + s.misses > 0
                 THEN (s.hits * 100) \div (s.hits + s.misses) ELSE 0]

\* sync.RWMutex
Unlocked == [writer |-> None, readers |-> {}]
CanRLock(m) == m.writer = None
CanLock(m) == m.writer = None /\ m.readers = {}

IdleLoc == [op |-> None, key |-> <<>>, value |-> NoValue, ttl |-> 0,
            ok |-> FALSE, got |-> NoValue, at |-> 0]

\* NewCache()
CacheInit ==
    /\ items = EmptyItems
    /\ stats = ZeroStats
    /\ running = TRUE
    /\ stopClosed = FALSE
    /\ closes = 0
    /\ cmu = Unlocked
    /\ cpc = [t \in Threads |-> "idle"]
    /\ cloc = [t \in Threads |-> IdleLoc]
    /\ calls = 0
    /\ getsDone = 0
    /\ spc = "wait"
    /\ nextTick = SweepPeriod
    /\ sweepN = 0

\* Get: c.mu.RLock(); item lookup; expiry check against time.Now()
GetLookup(t, k) ==
    /\ cpc[t] = "idle" /\ calls < MaxCalls /\ CanRLock(cmu)
    /\ calls' = calls + 1
    /\ cmu' = [cmu EXCEPT !.readers = @ \cup {t}]
    /\ LET r == Lookup(items, k, now)
       IN cloc' = [cloc EXCEPT ![t] = [op |-> "Get", key |-> k, value |-> NoValue,
                                       ttl |-> 0, ok |-> r.ok, got |-> r.value,
                                       at |-> now]]
    /\ cpc' = [cpc EXCEPT ![t] = "get_record"]
    /\ UNCHANGED <<clientVars, launchVars, now, advances, items, stats, running, stopClosed, closes,
                   getsDone, spc, nextTick, sweepN,
                   authVars, resolveVars, pollVars, svcVars, facadeVars>>

\* Get: c.mu.RLock() while a writer holds c.mu: the caller blocks
GetCall(t, k) ==
    /\ cpc[t] = "idle" /\ calls < MaxCalls /\ ~CanRLock(cmu)
    /\ calls' = calls + 1
    /\ cloc' = [cloc EXCEPT ![t] = [IdleLoc EXCEPT !.op = "Get", !.key = k]]
    /\ cpc' = [cpc EXCEPT ![t] = "get_wait"]
    /\ UNCHANGED <<clientVars, launchVars, now, advances, items, stats, running, stopClosed, closes,
                   cmu, getsDone, spc, nextTick, sweepN,
                   authVars, resolveVars, pollVars, svcVars, facadeVars>>

\* Get: the blocked c.mu.RLock() returns once no writer holds c.mu; the item
\* lookup and the expiry check follow
GetWake(t) ==
    /\ cpc[t] = "get_wait" /\ CanRLock(cmu)
    /\ cmu' = [cmu EXCEPT !.readers = @ \cup {t}]
    /\ LET r == Lookup(items, cloc[t].key, now)
       IN cloc' = [cloc EXCEPT ![t] = [@ EXCEPT !.ok = r.ok, !.got = r.value,
                                                !.at = now]]
    /\ cpc' = [cpc EXCEPT ![t] = "get_record"]
    /\ UNCHANGED <<clientVars, launchVars, now, advances, items, stats, running, stopClosed, closes,
                   calls, getsDone, spc, nextTick, sweepN,
                   authVars, resolveVars, pollVars, svcVars, facadeVars>>

\* Get: c.stats.recordHit() or c.stats.recordMiss()
GetRecord(t) ==
    /\ cpc[t] = "get_record"
    /\ stats' = IF cloc[t].ok THEN recordHit(stats) ELSE recordMiss(stats)
    /\ cpc' = [cpc EXCEPT ![t] = "get_return"]
    /\ UNCHANGED <<clientVars, launchVars, now, advances, items, running, stopClosed, closes, cmu, cloc,
                   calls, getsDone, spc, nextTick, sweepN,
                   authVars, resolveVars, pollVars, svcVars, facadeVars>>

\* Get: deferred c.mu.RUnlock(); return
GetReturn(t) ==
    /\ cpc[t] = "get_return"
    /\ cmu' = [cmu EXCEPT !.readers = @ \ {t}]
    /\ cloc' = [cloc EXCEPT ![t] = IdleLoc]
    /\ cpc' = [cpc EXCEPT ![t] = "idle"]
    /\ getsDone' = getsDone + 1
    /\ UNCHANGED <<clientVars, launchVars, now, advances, items, stats, running, stopClosed, closes,
                   calls, spc, nextTick, sweepN,
                   authVars, resolveVars, pollVars, svcVars, facadeVars>>

\* Set: c.mu.Lock(); c.items[key] = &cacheItem{...}
SetStore(t, k, v, ttl) ==
    /\ cpc[t] = "idle" /\ calls < MaxCalls /\ CanLock(cmu)
    /\ calls' = calls + 1
    /\ cmu' = [cmu EXCEPT !.writer = t]
    /\ items' = Store(items, k, v, now, ttl)
    /\ cloc' = [cloc EXCEPT ![t] = [IdleLoc EXCEPT !.op = "Set", !.key = k,
                                                   !.value = v, !.ttl = ttl]]
    /\ cpc' = [cpc EXCEPT ![t] = "set_record"]
    /\ UNCHANGED <<clientVars, launchVars, now, advances, stats, running, stopClosed, closes,
                   getsDone, spc, nextTick, sweepN,
                   authVars, resolveVars, pollVars, svcVars, facadeVars>>

\* Set: c.stats.recordSet()
SetRecord(t) ==
    /\ cpc[t] = "set_record"
    /\ stats' = recordSet(stats)
    /\ cpc' = [cpc EXCEPT ![t] = "set_size"]
    /\ UNCHANGED <<clientVars, launchVars, now, advances, items, running, stopClosed, closes, cmu, cloc,
                   calls, getsDone, spc, nextTick, sweepN,
                   authVars, resolveVars, pollVars, svcVars, facadeVars>>

\* Set: c.stats.updateSize(len(c.items)); deferred c.mu.Unlock()
SetSize(t) ==
    /\ cpc[t] = "set_size"
    /\ stats' = updateSize(stats, Cardinality(DOMAIN items))
    /\ cmu' = [cmu EXCEPT !.writer = None]
    /\ cloc' = [cloc EXCEPT ![t] = IdleLoc]
    /\ cpc' = [cpc EXCEPT ![t] = "idle"]
    /\ UNCHANGED <<clientVars, launchVars, now, advances, items, running, stopClosed, closes, calls,
                   getsDone, spc, nextTick, sweepN,
                   authVars, resolveVars, pollVars, svcVars, facadeVars>>

\* Delete: c.mu.Lock(); if present, delete(c.items, key)
DeleteRemove(t, k) ==
    /\ cpc[t] = "idle" /\ calls < MaxCalls /\ CanLock(cmu)
    /\ calls' = calls + 1
    /\ cmu' = [cmu EXCEPT !.writer = t]
    /\ cloc' = [cloc EXCEPT ![t] = [IdleLoc EXCEPT !.op = "Delete", !.key = k,
                                                   !.ok = (k \in DOMAIN items)]]
    /\ items' = IF k \in DOMAIN items THEN Remove(items, k) ELSE items
    /\ cpc' = [cpc EXCEPT ![t] = "del_size"]
    /\ UNCHANGED <<clientVars, launchVars, now, advances, stats, running, stopClosed, closes,
                   getsDone, spc, nextTick, sweepN,
                   authVars, resolveVars, pollVars, svcVars, facadeVars>>

\* Delete: if it was present, c.stats.updateSize(len(c.items)); c.mu.Unlock()
DeleteSize(t) ==
    /\ cpc[t] = "del_size"
    /\ stats' = IF cloc[t].ok THEN updateSize(stats, Cardinality(DOMAIN items))
                ELSE stats
    /\ cmu' = [cmu EXCEPT !.writer = None]
    /\ cloc' = [cloc EXCEPT ![t] = IdleLoc]
    /\ cpc' = [cpc EXCEPT ![t] = "idle"]
    /\ UNCHANGED <<clientVars, launchVars, now, advances, items, running, stopClosed, closes, calls,
                   getsDone, spc, nextTick, sweepN,
                   authVars, resolveVars, pollVars, svcVars, facadeVars>>

\* Clear: c.mu.Lock(); c.items = make(map)
ClearMap(t) ==
    /\ cpc[t] = "idle" /\ calls < MaxCalls /\ CanLock(cmu)
    /\ calls' = calls + 1
    /\ cmu' = [cmu EXCEPT !.writer = t]
    /\ items' = EmptyItems
    /\ cloc' = [cloc EXCEPT ![t] = [IdleLoc EXCEPT !.op = "Clear"]]
    /\ cpc' = [cpc EXCEPT ![t] = "clear_size"]
    /\ UNCHANGED <<clientVars, launchVars, now, advances, stats, running, stopClosed, closes,
                   getsDone, spc, nextTick, sweepN,
                   authVars, resolveVars, pollVars, svcVars, facadeVars>>

\* Clear: c.stats.updateSize(0); c.mu.Unlock()
ClearSize(t) ==
    /\ cpc[t] = "clear_size"
    /\ stats' = updateSize(stats, 0)
    /\ cmu' = [cmu EXCEPT !.writer = None]
    /\ cloc' = [cloc EXCEPT ![t] = IdleLoc]
    /\ cpc' = [cpc EXCEPT ![t] = "idle"]
    /\ UNCHANGED <<clientVars, launchVars, now, advances, items, running, stopClosed, closes, calls,
                   getsDone, spc, nextTick, sweepN,
                   authVars, resolveVars, pollVars, svcVars, facadeVars>>

\* a Close that closes the channel whether or not the cache is running
Close_unguarded(t) ==
    /\ cpc[t] = "idle" /\ calls < MaxCalls /\ CanLock(cmu)
    /\ calls' = calls + 1
    /\ running' = FALSE
    /\ stopClosed' = TRUE
    /\ closes' = closes + 1
    /\ UNCHANGED <<clientVars, launchVars, now, advances, items, stats, cmu, cpc, cloc, getsDone, spc,
                   nextTick, sweepN,
                   authVars, resolveVars, pollVars, svcVars, facadeVars>>

\* Close: under c.mu, if running then running = false and close(stopCh)
Close(t) ==
    /\ cpc[t] = "idle" /\ calls < MaxCalls /\ CanLock(cmu)
    /\ calls' = calls + 1
    /\ running' = FALSE
    /\ stopClosed' = (stopClosed \/ running)
    /\ closes' = IF running THEN closes + 1 ELSE closes
    /\ UNCHANGED <<clientVars, launchVars, now, advances, items, stats, cmu, cpc, cloc, getsDone, spc,
                   nextTick, sweepN,
                   authVars, resolveVars, pollVars, svcVars, facadeVars>>

NoStats == [n |-> 0, snap |-> snapshot(ZeroStats)]

\* GetStats: c.stats.snapshot(), under Statistics.mu only; c.mu is not taken
GetStats(t) ==
    /\ cpc[t] = "idle" /\ calls < MaxCalls
    /\ calls' = calls + 1
    /\ statsOut' = [n |-> calls + 1, snap |-> snapshot(stats)]
    /\ UNCHANGED <<clientVars, launchVars, now, advances, items, stats, running,
                   stopClosed, closes, cmu, cpc, cloc, getsDone, spc, nextTick, sweepN,
                   authVars, resolveVars, pollVars, svcVars,
                   scaleOut, healthOut, toolOut>>

\* cleanupExpired: case <-ticker.C; removeExpired takes c.mu and deletes the
\* expired entries
SweepRemove ==
    /\ spc = "wait" /\ now >= nextTick /\ CanLock(cmu)
    /\ nextTick' = ((now \div SweepPeriod) + 1) * SweepPeriod
    /\ cmu' = [cmu EXCEPT !.writer = "sweeper"]
    /\ sweepN' = Cardinality(ExpiredKeys(items, now))
    /\ items' = Swept(items, now)
    /\ spc' = "sweep_record"
    /\ UNCHANGED <<clientVars, launchVars, now, advances, stats, running, stopClosed, closes, cpc, cloc,
                   calls, getsDone,
                   authVars, resolveVars, pollVars, svcVars, facadeVars>>

\* removeExpired: if evicted > 0, c.stats.recordEvictions(evicted)
SweepRecord ==
    /\ spc = "sweep_record"
    /\ stats' = IF sweepN > 0 THEN recordEvictions(stats, sweepN) ELSE stats
    /\ spc' = "sweep_size"
    /\ UNCHANGED <<clientVars, launchVars, now, advances, items, running, stopClosed, closes, cmu, cpc,
                   cloc, calls, getsDone, nextTick, sweepN,
                   authVars, resolveVars, pollVars, svcVars, facadeVars>>

\* a sweep that returns without unlocking c.mu
SweepSize_locked ==
    /\ spc = "sweep_size"
    /\ stats' = IF sweepN > 0 THEN updateSize(stats, Cardinality(DOMAIN items))
                ELSE stats
    /\ sweepN' = 0
    /\ spc' = "wait"
    /\ UNCHANGED <<clientVars, launchVars, now, advances, items, running, stopClosed, closes,
                   cmu, cpc, cloc, calls, getsDone, nextTick,
                   authVars, resolveVars, pollVars, svcVars, facadeVars>>

\* removeExpired: if evicted > 0, c.stats.updateSize(len(c.items)); c.mu.Unlock()
SweepSize ==
    /\ spc = "sweep_size"
    /\ stats' = IF sweepN > 0 THEN updateSize(stats, Cardinality(DOMAIN items))
                ELSE stats
    /\ cmu' = [cmu EXCEPT !.writer = None]
    /\ sweepN' = 0
    /\ spc' = "wait"
    /\ UNCHANGED <<clientVars, launchVars, now, advances, items, running, stopClosed, closes, cpc, cloc,
                   calls, getsDone, nextTick,
                   authVars, resolveVars, pollVars, svcVars, facadeVars>>

\* cleanupExpired: case <-c.stopCh: return
SweeperStop ==
    /\ spc = "wait" /\ stopClosed
    /\ spc' = "stopped"
    /\ UNCHANGED <<clientVars, launchVars, now, advances, items, stats, running, stopClosed, closes, cmu,
                   cpc, cloc, calls, getsDone, nextTick, sweepN,
                   authVars, resolveVars, pollVars, svcVars, facadeVars>>

\* the wall clock moves on by d seconds
Advance(d) ==
    /\ advances < MaxAdvances
    /\ advances' = advances + 1
    /\ now' = now + d
    /\ UNCHANGED <<cacheVars, clientVars, launchVars,
                   authVars, resolveVars, pollVars, svcVars, facadeVars>>

(***************************************************************************)
(* AWX client (internal/awx/client.go)                                     *)
(***************************************************************************)
\* Bounds of the client explorations: operations started in a run
MaxOps == 2
MaxTplOps == 3
MaxConcOps == 3

Workers == {"w1", "w2"}
JobIDs == {1234}
NewNames == {<<"x">>}
ClientDeltas == {5, 300}

NoErr == ""
NonTerminal == {"pending", "waiting", "running"}
Terminal == {"successful", "failed", "canceled", "error"}
\* what the HTTP exchange of makeRequest can come to: an error before or
\* from the backend (httpClient.Do fails, status >= 400), a success status
\* whose body does not decode, success
Outcomes == {"backend", "decode", "ok"}

\* cache TTLs, in seconds
TemplatesTTL == 300
InventoriesTTL == 300
ProjectsTTL == 600
JobShortTTL == 10
JobLongTTL == 300

\* cacheKey := "awx:job_templates" / "awx:inventories" / "awx:projects"
TemplatesKey == <<"awx:job_templates">>
InventoriesKey == <<"awx:inventories">>
ProjectsKey == <<"awx:projects">>
\* cacheKey := fmt.Sprintf("awx:job:%d", jobID)
JobKey(id) == <<"awx:job:">> \o Itoa(id)

\* job.URL = c.baseURL + "/#/jobs/playbook/" + strconv.Itoa(jobID)
JobURL(base, id) == base \o <<"/#/jobs/playbook/">> \o Itoa(id)

\* a GetJob that returns any cached job
ReturnableFromCache_any(status) == TRUE

\* GetJob returns the cached Job only for these states
ReturnableFromCache(status) == status \in {"successful", "failed", "canceled"}

\* GetJob's cacheTTL
JobTTL(status) ==
    IF status = "running" \/ status = "pending" THEN JobShortTTL ELSE JobLongTTL

ListKey(op) ==
    CASE op = "GetJobTemplates" -> TemplatesKey
      [] op = "GetInventories" -> InventoriesKey
      [] op = "GetProjects" -> ProjectsKey

\* one TTL for every list
ListTTL_same(op) == TemplatesTTL

ListTTL(op) ==
    CASE op = "GetJobTemplates" -> TemplatesTTL
      [] op = "GetInventories" -> InventoriesTTL
      [] op = "GetProjects" -> ProjectsTTL

\* the backend's inventories and projects (never changed by this program)
SrvInventories == <<[ID |-> 1, Name |-> <<"prod">>]>>
SrvProjects == <<[ID |-> 2, Name |-> <<"infra">>]>>
InitTemplates == <<[ID |-> 7, Name |-> <<"deploy">>]>>
DefaultBaseURL == <<"http://awx.local">>

\* the id the backend gives a created template
RECURSIVE MaxID(_)
MaxID(ts) == IF ts = <<>> THEN 0
             ELSE LET m == MaxID(Tail(ts))
                  IN IF Head(ts).ID > m THEN Head(ts).ID ELSE m

\* the job lifecycle the backend follows
NextStates(st) ==
    CASE st = "pending" -> {"waiting"}
      [] st = "waiting" -> {"running", "canceled"}
      [] st = "running" -> Terminal
      [] OTHER -> {}

NoReply == [kind |-> None, data |-> NoValue]
IdleW == [op |-> None, id |-> 0, name |-> <<>>, reply |-> NoReply, err |-> NoErr,
          val |-> NoValue, cached |-> FALSE, fetched |-> FALSE,
          afterCreate |-> FALSE, before |-> EmptyItems]

\* NewClient: no operation is running; the run may start n operations
ClientIdle(n) ==
    /\ budget = n
    /\ srvJob \in [JobIDs -> {"pending"}]
    /\ wpc = [w \in Workers |-> "idle"]
    /\ wloc = [w \in Workers |-> IdleW]
    /\ ops = 0
    /\ createdSince = FALSE

\* an invocation may begin on worker w (seq: invocations do not overlap, so
\* one worker serves them all)
CanStart(w, seq) ==
    /\ wpc[w] = "idle" /\ ops < budget
    /\ seq => w = "w1"

\* a Get whose read lock is still held when the operation goes on
MuAfterGet_held(who) == [cmu EXCEPT !.readers = @ \cup {who}]

\* Cache.mu once c.cache.Get has returned to the client operation who: the
\* deferred RUnlock has run, so who holds nothing
MuAfterGet(who) == [cmu EXCEPT !.readers = @ \ {who}]

\* c.cache.Get(key): the statistics after it
StatsAfterGet(k) == IF Lookup(items, k, now).ok THEN recordHit(stats) ELSE recordMiss(stats)

\* c.cache.Set(key, v, ttl): the statistics after it
StatsAfterSet(k, v, ttl) ==
    updateSize(recordSet(stats), Cardinality(DOMAIN Store(items, k, v, now, ttl)))

\* a Delete that leaves the entry in place
ItemsAfterDelete_kept(k) == items

\* c.cache.Delete(key): the map and the statistics after it
ItemsAfterDelete(k) == IF k \in DOMAIN items THEN Remove(items, k) ELSE items
StatsAfterDelete(k) ==
    IF k \in DOMAIN items THEN updateSize(stats, Cardinality(DOMAIN Remove(items, k)))
    ELSE stats

\* a cached job handed back as if it had not started
CachedJob_reset(value) == [value EXCEPT !.Status = "pending"]

\* GetJob's cached.(*Job): the cached job as it is handed back
CachedJob(value) == value

\* CheckJobStatus's output for the job GetJob returned
AWXStatusOutput(id, job) == [JobID |-> id, Status |-> job.Status]

\* GetJob up to its request: cache lookup, cached terminal job returned
GetJobBegin(w, id, seq) ==
    /\ CanStart(w, seq) /\ CanRLock(cmu)
    /\ ops' = ops + 1
    /\ stats' = StatsAfterGet(JobKey(id))
    /\ LET r == Lookup(items, JobKey(id), now)
           hit == r.ok /\ ReturnableFromCache(r.value.Status)
       IN /\ wpc' = [wpc EXCEPT ![w] = IF hit THEN "done" ELSE "req"]
          /\ wloc' = [wloc EXCEPT ![w] =
                [IdleW EXCEPT !.op = "GetJob", !.id = id, !.cached = hit,
                              !.before = items,
                              !.val = IF hit THEN CachedJob(r.value) ELSE NoValue]]
          /\ reported' = IF hit
                         THEN [reported EXCEPT
                                 ![id] = AWXStatusOutput(id, CachedJob(r.value)).Status]
                         ELSE reported
    /\ cmu' = MuAfterGet(w)
    /\ UNCHANGED <<launchVars, now, advances, items, running, stopClosed, closes, cpc, cloc,
                   calls, getsDone, spc, nextTick, sweepN,
                   baseURL, srvTemplates, srvJob, budget, createdSince,
                   authVars, resolveVars, cancelOut, svcVars, facadeVars>>

\* GetJob after makeRequest: on error return it; else set URL, cache by status
GetJobReceive(w) ==
    /\ wpc[w] = "resp" /\ wloc[w].op = "GetJob"
    /\ IF wloc[w].reply.kind # "ok"
       THEN /\ wloc' = [wloc EXCEPT ![w].err = wloc[w].reply.kind, ![w].reply = NoReply]
            /\ UNCHANGED <<items, stats, reported>>
       ELSE LET job == [ID |-> wloc[w].reply.data.ID,
                        Status |-> wloc[w].reply.data.Status,
                        URL |-> JobURL(baseURL, wloc[w].id)]
                k == JobKey(wloc[w].id)
            IN /\ CanLock(cmu)
               /\ items' = Store(items, k, job, now, JobTTL(job.Status))
               /\ stats' = StatsAfterSet(k, job, JobTTL(job.Status))
               /\ wloc' = [wloc EXCEPT ![w].val = job, ![w].reply = NoReply]
               /\ reported' = [reported EXCEPT
                                 ![wloc[w].id] = AWXStatusOutput(wloc[w].id, job).Status]
    /\ wpc' = [wpc EXCEPT ![w] = "done"]
    /\ UNCHANGED <<launchVars, now, advances, running, stopClosed, closes, cmu, cpc, cloc,
                   calls, getsDone, spc, nextTick, sweepN,
                   baseURL, srvTemplates, srvJob, ops, budget, createdSince,
                   authVars, resolveVars, cancelOut, svcVars, facadeVars>>

\* GetJobTemplates / GetInventories / GetProjects up to the request
ListBegin(w, op, seq) ==
    /\ CanStart(w, seq) /\ CanRLock(cmu)
    /\ ops' = ops + 1
    /\ stats' = StatsAfterGet(ListKey(op))
    /\ LET r == Lookup(items, ListKey(op), now)
       IN /\ wpc' = [wpc EXCEPT ![w] = IF r.ok THEN "done" ELSE "req"]
          /\ wloc' = [wloc EXCEPT ![w] =
                [IdleW EXCEPT !.op = op, !.cached = r.ok, !.before = items,
                              !.val = IF r.ok THEN r.value ELSE NoValue,
                              !.afterCreate = (op = "GetJobTemplates" /\ createdSince)]]
    /\ createdSince' = IF op = "GetJobTemplates" THEN FALSE ELSE createdSince
    /\ cmu' = MuAfterGet(w)
    /\ UNCHANGED <<launchVars, now, advances, items, running, stopClosed, closes, cpc, cloc,
                   calls, getsDone, spc, nextTick, sweepN,
                   baseURL, srvTemplates, srvJob, budget,
                   authVars, resolveVars, pollVars, svcVars, facadeVars>>

\* ... and after makeRequest: on error return it; else cache the list
ListReceive(w, op) ==
    /\ wpc[w] = "resp" /\ wloc[w].op = op
    /\ IF wloc[w].reply.kind # "ok"
       THEN /\ wloc' = [wloc EXCEPT ![w].err = wloc[w].reply.kind, ![w].reply = NoReply]
            /\ UNCHANGED <<items, stats>>
       ELSE LET list == wloc[w].reply.data
            IN /\ CanLock(cmu)
               /\ items' = Store(items, ListKey(op), list, now, ListTTL(op))
               /\ stats' = StatsAfterSet(ListKey(op), list, ListTTL(op))
               /\ wloc' = [wloc EXCEPT ![w].val = list, ![w].reply = NoReply]
    /\ wpc' = [wpc EXCEPT ![w] = "done"]
    /\ UNCHANGED <<launchVars, now, advances, running, stopClosed, closes, cmu, cpc, cloc,
                   calls, getsDone, spc, nextTick, sweepN,
                   baseURL, srvTemplates, srvJob, ops, budget, createdSince,
                   authVars, resolveVars, pollVars, svcVars, facadeVars>>

GetJobTemplatesBegin(w, seq) == ListBegin(w, "GetJobTemplates", seq)
GetJobTemplatesReceive(w) == ListReceive(w, "GetJobTemplates")
GetInventoriesBegin(w, seq) == ListBegin(w, "GetInventories", seq)
GetInventoriesReceive(w) == ListReceive(w, "GetInventories")
GetProjectsBegin(w, seq) == ListBegin(w, "GetProjects", seq)
GetProjectsReceive(w) == ListReceive(w, "GetProjects")

\* CreateJobTemplate, CancelJob and GetJobs go straight to makeRequest
DirectBegin(w, op, id, name, seq) ==
    /\ CanStart(w, seq)
    /\ ops' = ops + 1
    /\ wpc' = [wpc EXCEPT ![w] = "req"]
    /\ wloc' = [wloc EXCEPT ![w] = [IdleW EXCEPT !.op = op, !.id = id, !.name = name,
                                                  !.before = items]]
    /\ UNCHANGED <<launchVars, now, advances, cacheVars, baseURL, srvTemplates, srvJob, budget, createdSince,
                   authVars, resolveVars, pollVars, svcVars, facadeVars>>

CreateJobTemplateBegin(w, name, seq) == DirectBegin(w, "CreateJobTemplate", 0, name, seq)
CancelJobBegin(w, id, seq) == DirectBegin(w, "CancelJob", id, <<>>, seq)
GetJobsBegin(w, seq) == DirectBegin(w, "GetJobs", 0, <<>>, seq)

\* a CreateJobTemplate that drops the cached list whatever the reply
ItemsAfterCreate_always(reply) == ItemsAfterDelete(TemplatesKey)

\* CreateJobTemplate: the cache after makeRequest returned: untouched on
\* error, "awx:job_templates" deleted on success
ItemsAfterCreate(reply) ==
    IF reply.kind # "ok" THEN items ELSE ItemsAfterDelete(TemplatesKey)

\* CreateJobTemplate after makeRequest: on error return it; else invalidate
\* "awx:job_templates"
CreateJobTemplateReceive(w) ==
    /\ wpc[w] = "resp" /\ wloc[w].op = "CreateJobTemplate"
    /\ items' = ItemsAfterCreate(wloc[w].reply)
    /\ IF wloc[w].reply.kind # "ok"
       THEN /\ wloc' = [wloc EXCEPT ![w].err = wloc[w].reply.kind, ![w].reply = NoReply]
            /\ stats' = IF items' = items THEN stats ELSE StatsAfterDelete(TemplatesKey)
            /\ UNCHANGED createdSince
       ELSE /\ CanLock(cmu)
            /\ stats' = StatsAfterDelete(TemplatesKey)
            /\ createdSince' = TRUE
            /\ wloc' = [wloc EXCEPT ![w].val = wloc[w].reply.data, ![w].reply = NoReply]
    /\ wpc' = [wpc EXCEPT ![w] = "done"]
    /\ UNCHANGED <<launchVars, now, advances, running, stopClosed, closes, cmu, cpc, cloc,
                   calls, getsDone, spc, nextTick, sweepN,
                   baseURL, srvTemplates, srvJob, ops, budget,
                   authVars, resolveVars, pollVars, svcVars, facadeVars>>

\* CancelJob and GetJobs after makeRequest: return the error or the result
DirectReceive(w, op) ==
    /\ wpc[w] = "resp" /\ wloc[w].op = op
    /\ wloc' = IF wloc[w].reply.kind # "ok"
               THEN [wloc EXCEPT ![w].err = wloc[w].reply.kind, ![w].reply = NoReply]
               ELSE [wloc EXCEPT ![w].val = wloc[w].reply.data, ![w].reply = NoReply]
    /\ wpc' = [wpc EXCEPT ![w] = "done"]
    /\ UNCHANGED <<launchVars, now, advances, cacheVars, baseURL, srvTemplates, srvJob, ops,
                   budget, createdSince,
                   authVars, resolveVars, pollVars, svcVars, facadeVars>>

\* a CancelJob that reports what the backend has done with the job
CancelJobOutput_state(id) ==
    [JobID |-> id, Status |-> IF srvJob[id] = "canceled" THEN "canceled" ELSE "cancel_requested"]

\* AutomationService.CancelJob: what a call that did not fail returns
CancelJobOutput(id) == [JobID |-> id, Status |-> "cancel_requested"]

\* CancelJob after makeRequest, which is given no result to decode into: only
\* a transport error or a status >= 400 is an error; otherwise the service
\* returns its output
CancelJobReceive(w) ==
    /\ wpc[w] = "resp" /\ wloc[w].op = "CancelJob"
    /\ IF wloc[w].reply.kind = "backend"
       THEN /\ wloc' = [wloc EXCEPT ![w].err = wloc[w].reply.kind, ![w].reply = NoReply]
            /\ cancelOut' = cancelOut
       ELSE /\ wloc' = [wloc EXCEPT ![w].val = CancelJobOutput(wloc[w].id),
                                    ![w].reply = NoReply]
            /\ cancelOut' = [cancelOut EXCEPT
                  ![wloc[w].id] = Append(@, CancelJobOutput(wloc[w].id))]
    /\ wpc' = [wpc EXCEPT ![w] = "done"]
    /\ UNCHANGED <<launchVars, now, advances, cacheVars, baseURL, srvTemplates, srvJob, ops,
                   budget, createdSince, authVars, resolveVars, reported, svcVars, facadeVars>>
GetJobsReceive(w) == DirectReceive(w, "GetJobs")

\* makeRequest: testBasicAuth is called first when there is no token but a
\* username; its result is dropped
ProbesAfterRequest ==
    IF token.len = "" /\ username # "" THEN authProbes + 1 ELSE authProbes

\* the HTTP exchange of makeRequest: the backend handles the request (or the
\* exchange fails) and the reply travels back
BackendServe(w, outcome) ==
    /\ wpc[w] = "req"
    /\ wpc' = [wpc EXCEPT ![w] = "resp"]
    /\ LET op == wloc[w].op
           created == [ID |-> MaxID(srvTemplates) + 1, Name |-> wloc[w].name]
           data == CASE outcome # "ok" -> NoValue
                     [] op = "GetJob" -> [ID |-> wloc[w].id, Status |-> srvJob[wloc[w].id]]
                     [] op = "GetJobTemplates" -> srvTemplates
                     [] op = "GetInventories" -> SrvInventories
                     [] op = "GetProjects" -> SrvProjects
                     [] op = "CreateJobTemplate" -> created
                     [] op = "GetJobs" -> [id \in JobIDs |-> srvJob[id]]
                     [] OTHER -> NoValue
       IN /\ wloc' = [wloc EXCEPT ![w].reply = [kind |-> outcome, data |-> data],
                                  ![w].fetched = TRUE]
          /\ srvTemplates' = IF op = "CreateJobTemplate" /\ outcome \in {"ok", "decode"}
                             THEN Append(srvTemplates, created) ELSE srvTemplates
          /\ \/ srvJob' = srvJob
             \/ /\ op = "CancelJob" /\ outcome \in {"ok", "decode"}
                /\ srvJob[wloc[w].id] \in NonTerminal
                /\ srvJob' = [srvJob EXCEPT ![wloc[w].id] = "canceled"]
    /\ authProbes' = ProbesAfterRequest
    /\ UNCHANGED <<launchVars, now, advances, cacheVars, baseURL, ops, budget, createdSince,
                   token, username, password, apc, aloc, resolveVars, pollVars, svcVars, facadeVars>>

\* the invocation hands its result to the caller
Return(w) ==
    /\ wpc[w] = "done"
    /\ wpc' = [wpc EXCEPT ![w] = "idle"]
    /\ wloc' = [wloc EXCEPT ![w] = IdleW]
    /\ UNCHANGED <<launchVars, now, advances, cacheVars, baseURL, srvTemplates, srvJob, ops,
                   budget, createdSince,
                   authVars, resolveVars, pollVars, svcVars, facadeVars>>

\* ClearCache: c.cache.Clear()
ClearCache(w, seq) ==
    /\ CanStart(w, seq) /\ CanLock(cmu)
    /\ ops' = ops + 1
    /\ items' = EmptyItems
    /\ stats' = updateSize(stats, 0)
    /\ UNCHANGED <<launchVars, now, advances, running, stopClosed, closes, cmu, cpc, cloc,
                   calls, getsDone, spc, nextTick, sweepN,
                   baseURL, srvTemplates, srvJob, wpc, wloc, budget, createdSince,
                   authVars, resolveVars, pollVars, svcVars, facadeVars>>

\* the backend moves a job along its lifecycle
BackendProgress(id) ==
    /\ \E st \in NextStates(srvJob[id]) : srvJob' = [srvJob EXCEPT ![id] = st]
    /\ UNCHANGED <<launchVars, now, advances, cacheVars, baseURL, srvTemplates, wpc, wloc, ops,
                   budget, createdSince,
                   authVars, resolveVars, pollVars, svcVars, facadeVars>>

(***************************************************************************)
(* Job launcher (internal/awx/job_launcher.go)                             *)
(***************************************************************************)
\* Bound of the launcher exploration: Launch calls in a run
MaxLaunches == 2

\* const maxRetries = 3; const retryDelay = 2 * time.Second
maxRetries == 3
retryDelay == 2

BaseURLs == {<<"http://awx.local">>, <<"http://awx.local:", "8", "4", "0", "3">>}
LaunchTemplateLists ==
    { <<[ID |-> 7, Name |-> <<"deploy">>], [ID |-> 403, Name |-> <<"db-backup">>]>>,
      <<[ID |-> 7, Name |-> <<"deploy">>], [ID |-> 8, Name |-> <<"7">>]>> }
Identifiers == {<<>>, <<"deploy">>, <<"7">>, <<"4", "0", "3">>, <<"nope">>}
LaunchedJobs == {1234}
\* time that passes between the launcher's steps, in seconds
LaunchDeltas == {300}

IsDigit(a) == \E i \in 1..10 : Digits[i] = a
DigitVal(a) == (CHOOSE i \in 1..10 : Digits[i] = a) - 1
RECURSIVE AtoiVal(_)
AtoiVal(s) == IF s = <<>> THEN 0
              ELSE AtoiVal(SubSeq(s, 1, Len(s) - 1)) * 10 + DigitVal(s[Len(s)])
\* an Atoi that accepts nothing
Atoi_none(s) == [ok |-> FALSE, val |-> 0]

\* strconv.Atoi: an optional sign, then one or more decimal digits: [ok, val]
Atoi(s) ==
    LET signed == s # <<>> /\ s[1] \in {"+", "-"}
        body == IF signed THEN Tail(s) ELSE s
        ok == body # <<>> /\ \A i \in 1..Len(body) : IsDigit(body[i])
    IN [ok |-> ok,
        val |-> IF ~ok THEN 0
                ELSE IF signed /\ s[1] = "-" THEN 0 - AtoiVal(body)
                ELSE AtoiVal(body)]

MinOf(S) == CHOOSE x \in S : \A y \in S : x <= y

\* an enumeration that stops after the first template
AvailableText_first(ts) ==
    IF ts = <<>> THEN <<>>
    ELSE <<"'">> \o Head(ts).Name \o <<"'", " (ID: ">> \o Itoa(Head(ts).ID) \o <<")">>

\* strings.Join(available, ", ") over "'%s' (ID: %d)"
RECURSIVE AvailableText(_)
AvailableText(ts) ==
    IF ts = <<>> THEN <<>>
    ELSE <<"'">> \o Head(ts).Name \o <<"'", " (ID: ">> \o Itoa(Head(ts).ID) \o <<")">>
         \o (IF Tail(ts) = <<>> THEN <<>> ELSE <<", ">> \o AvailableText(Tail(ts)))

\* resolveTemplate's search: by numeric id first, then by exact name
resolveTemplate(ts, nameOrID) ==
    LET a == Atoi(nameOrID)
        byID == {i \in 1..Len(ts) : a.ok /\ ts[i].ID = a.val}
        byName == {i \in 1..Len(ts) : ts[i].Name = nameOrID}
    IN IF byID # {}
       THEN [found |-> TRUE, ID |-> ts[MinOf(byID)].ID, Name |-> ts[MinOf(byID)].Name,
             err |-> <<>>]
       ELSE IF byName # {}
       THEN [found |-> TRUE, ID |-> ts[MinOf(byName)].ID,
             Name |-> ts[MinOf(byName)].Name, err |-> <<>>]
       ELSE [found |-> FALSE, ID |-> 0, Name |-> <<>>,
             err |-> <<"template ", "not found", ". Available templates: ">>
                     \o AvailableText(ts)]

\* url := fmt.Sprintf("%s/api/v2/job_templates/%d/launch/", baseURL, templateID)
LaunchURL(base, id) ==
    base \o <<"/api/v", "2", "/job_templates/">> \o Itoa(id) \o <<"/launch/">>

\* the text of the *url.Error that http.Client.Do returns
UrlError(op, url, cause) == <<op, " \"">> \o url \o <<"\": ">> \o cause

\* what an HTTP exchange of the launcher can come to
NoOutcome == [kind |-> None, status |-> 0, body |-> <<>>, cause |-> <<>>,
              json |-> FALSE, job |-> 0, url |-> <<>>, state |-> ""]
TransportOutcomes ==
    {[NoOutcome EXCEPT !.kind = "transport",
                       !.cause = <<"dial tcp: connect: connection refused">>]}
ReadOutcomes ==
    {[NoOutcome EXCEPT !.kind = "read", !.status = 201, !.cause = <<"unexpected EOF">>]}
ErrBodies == {<<>>, <<"{\"detail\":\"Job template ", "not found", "\"}">>}
ErrStatuses == {400, 401, 403, 404, 502}
StatusOutcomes ==
    {[NoOutcome EXCEPT !.kind = "status", !.status = s, !.body = b] :
        s \in ErrStatuses, b \in ErrBodies}
DecodeOutcomes ==
    {[NoOutcome EXCEPT !.kind = "status", !.status = 201, !.body = <<"<html>">>,
        !.cause = <<"invalid character '<' looking for beginning of value">>]}
\* the "url" member of the launch response's JSON: the job's API path, or
\* the job's page in the web interface
ResponseURLs(job) ==
    { <<"/api/v", "2", "/jobs/">> \o Itoa(job) \o <<"/">>,
      JobURL(DefaultBaseURL, job) }

\* the "status" member of the launch response's JSON; JobLaunchResponse has
\* no field for it
ResponseStates == {"pending", "running"}
SuccessOutcomes ==
    UNION { {[NoOutcome EXCEPT !.kind = "status", !.status = 201, !.json = TRUE,
                               !.job = j, !.url = u, !.state = st] :
                u \in ResponseURLs(j), st \in ResponseStates} : j \in LaunchedJobs }
AttemptOutcomes ==
    TransportOutcomes \cup ReadOutcomes \cup StatusOutcomes \cup DecodeOutcomes
        \cup SuccessOutcomes
ProbeStatuses == {200, 304, 403, 500}
ProbeOutcomes ==
    TransportOutcomes \cup
    {[NoOutcome EXCEPT !.kind = "status", !.status = s] : s \in ProbeStatuses}

\* executeSingleLaunch's err == nil
SingleLaunchOK(o) == o.kind = "status" /\ o.status < 400 /\ o.json

\* executeSingleLaunch's error text
SingleLaunchErr(base, id, o) ==
    CASE o.kind = "transport" ->
            <<"HTTP request failed: ">> \o UrlError("Post", LaunchURL(base, id), o.cause)
      [] o.kind = "read" -> <<"failed to read response: ">> \o o.cause
      [] o.kind = "status" /\ o.status >= 400 ->
            <<"AWX API error: status ">> \o Itoa(o.status) \o <<" - ">> \o o.body
      [] o.kind = "status" /\ o.status < 400 /\ ~o.json ->
            <<"failed to parse response: ">> \o o.cause
      [] OTHER -> <<>>

\* a classification that does not look for "401" and "authentication"
isNonRetryableError_no401(errStr) ==
    \/ Contains(errStr, <<"4", "0", "3">>)
    \/ Contains(errStr, <<"insufficient permissions">>)
    \/ Contains(errStr, <<"4", "0", "0">>)
    \/ Contains(errStr, <<"not found">>)

isNonRetryableError(errStr) ==
    \/ Contains(errStr, <<"4", "0", "3">>)
    \/ Contains(errStr, <<"insufficient permissions">>)
    \/ Contains(errStr, <<"4", "0", "0">>)
    \/ Contains(errStr, <<"not found">>)
    \/ Contains(errStr, <<"4", "0", "1">>)
    \/ Contains(errStr, <<"authentication">>)

\* a retry loop that stops when the caller's ctx is done
AfterFailedAttempt_ctx(n, e) ==
    IF isNonRetryableError(e) \/ lctx.done THEN "done"
    ELSE IF n < maxRetries THEN "sleep"
    ELSE "done"

\* executeLaunchWithRetry after failed attempt number n with error text e
AfterFailedAttempt(n, e) ==
    IF isNonRetryableError(e) THEN "done"
    ELSE IF n < maxRetries THEN "sleep"
    ELSE "done"

\* a probe check that stops on 403 only
ProbeFails_only403(o) == o.kind = "transport" \/ o.status = 403

\* validateLaunchPermissions returns an error
ProbeFails(o) == o.kind = "transport" \/ o.status = 403 \/ o.status >= 400

\* validateLaunchPermissions' error text
ProbeErr(base, id, o) ==
    CASE o.kind = "transport" ->
            <<"failed to validate launch permissions: ">>
                \o UrlError("Get", LaunchURL(base, id), o.cause)
      [] o.status = 403 ->
            <<"insufficient permissions", " to launch this job template">>
      [] OTHER -> <<"validation failed with status ">> \o Itoa(o.status)
                    \o <<": ">> \o o.body

\* makeRequest's error text
MakeRequestErr(kind) ==
    CASE kind = "backend" -> <<"AWX API error: ", "Internal Server Error">>
      [] kind = "decode" -> <<"failed to decode response: ", "unexpected EOF">>
      [] OTHER -> <<>>

\* createSuccessMessage (no extra variables, no limit)
createSuccessMessage(templateName, jobID) ==
    <<"Successfully launched job ">> \o Itoa(jobID) \o <<" using template '">>
        \o templateName \o <<"'">>


\* a result that takes its state from the response
LaunchResult_echo(templateName, response) ==
    [ok |-> TRUE, stage |-> "launched", err |-> <<>>,
     JobID |-> response.job, Status |-> response.state, URL |-> response.url,
     Message |-> createSuccessMessage(templateName, response.job),
     LaunchType |-> "api"]

\* Launch's result := &LaunchResult{...} for the decoded response
LaunchResult(templateName, response) ==
    [ok |-> TRUE, stage |-> "launched", err |-> <<>>,
     JobID |-> response.job, Status |-> "pending", URL |-> response.url,
     Message |-> createSuccessMessage(templateName, response.job),
     LaunchType |-> "api"]

\* AutomationService.LaunchJob's output for Launch's result
AWXJobOutput(result) ==
    IF result.ok
    THEN [ok |-> TRUE, err |-> <<>>, JobID |-> result.JobID, Status |-> result.Status,
          URL |-> result.URL, Message |-> result.Message]
    ELSE [ok |-> FALSE, err |-> <<"failed to launch AWX job: ">> \o result.err,
          JobID |-> 0, Status |-> "", URL |-> <<>>, Message |-> <<>>]

NoTemplate == [tried |-> FALSE, fetchFailed |-> FALSE, found |-> FALSE, ID |-> 0,
               Name |-> <<>>]
NoResult == [ok |-> FALSE, stage |-> None, err |-> <<>>, JobID |-> 0, Status |-> "",
             URL |-> <<>>, Message |-> <<>>, LaunchType |-> ""]
Failure(stage, e) == [NoResult EXCEPT !.stage = stage, !.err = e]

\* the caller's context: not cancelled
LiveCtx == [done |-> FALSE, at |-> None]

\* the error of a request whose context was cancelled
CanceledCause == <<"context canceled">>
CanceledOutcome == [NoOutcome EXCEPT !.kind = "transport", !.cause = CanceledCause]
CanceledFetchErr(base) ==
    <<"failed to make request: ">>
        \o UrlError("Get", base \o <<"/api/v", "2", "/job_templates/">>, CanceledCause)

\* http.Client{Timeout: timeout} gave up on the attempt
TimeoutOutcomes ==
    {[NoOutcome EXCEPT !.kind = "transport",
        !.cause = <<"context deadline exceeded (Client.Timeout exceeded while awaiting headers)">>]}

\* a launcher whose POST carries the caller's ctx as well
RequestAborted_all(stage) == lctx.done

\* whether the request of a stage is ended by the caller's cancellation:
\* resolveTemplate's and validateLaunchPermissions' requests are built with
\* NewRequestWithContext(ctx), executeSingleLaunch's with http.NewRequest
RequestAborted(stage) == stage # "attempt" /\ lctx.done

LaunchIdle ==
    /\ lpc = "idle"
    /\ lopt = [TemplateNameOrID |-> <<>>]
    /\ ltpl = NoTemplate
    /\ lprobe = NoOutcome
    /\ lastOutcome = NoOutcome
    /\ lastErr = <<>>
    /\ attempts = 0
    /\ delays = 0
    /\ probes = 0
    /\ fetches = 0
    /\ lres = NoResult
    /\ launches = 0
    /\ lctx = LiveCtx

\* a Launch that goes on to the probe whatever resolveTemplate returned
AfterResolve_probe(r) == "probe"

\* where Launch goes once resolveTemplate has returned r
AfterResolve(r) == IF r.found THEN "probe" ELSE "done"

\* Launch's result when resolveTemplate returned r with error text e
ResolveResult(nameOrID, r, e) ==
    IF r.found THEN NoResult
    ELSE Failure("resolve", <<"failed to resolve template '">> \o nameOrID
                                \o <<"': ">> \o e)

\* Launch up to the first request: the options check, then resolveTemplate's
\* GetJobTemplates answered from the cache or sent to the backend
LaunchBegin(nameOrID) ==
    /\ lpc \in {"idle", "done"} /\ launches < MaxLaunches
    /\ launches' = launches + 1
    /\ lopt' = [TemplateNameOrID |-> nameOrID]
    /\ lprobe' = NoOutcome /\ lastOutcome' = NoOutcome /\ lastErr' = <<>>
    /\ attempts' = 0 /\ delays' = 0 /\ probes' = 0 /\ fetches' = 0
    /\ lctx' = LiveCtx
    /\ IF nameOrID = <<>>
       THEN /\ lpc' = "done"
            /\ lres' = Failure("options", <<"template name or ID is required">>)
            /\ ltpl' = NoTemplate
            /\ UNCHANGED <<stats, cmu>>
       ELSE /\ CanRLock(cmu)
            /\ cmu' = MuAfterGet("launcher")
            /\ stats' = StatsAfterGet(TemplatesKey)
            /\ LET c == Lookup(items, TemplatesKey, now)
                   r == resolveTemplate(c.value, nameOrID)
               IN IF c.ok
                  THEN /\ lpc' = AfterResolve(r)
                       /\ ltpl' = [tried |-> TRUE, fetchFailed |-> FALSE,
                                   found |-> r.found, ID |-> r.ID, Name |-> r.Name]
                       /\ lres' = ResolveResult(nameOrID, r, r.err)
                  ELSE /\ lpc' = "fetch"
                       /\ ltpl' = NoTemplate
                       /\ lres' = NoResult
    /\ UNCHANGED <<now, advances, items, running, stopClosed, closes, cpc, cloc,
                   calls, getsDone, spc, nextTick, sweepN, clientVars,
                   authVars, resolveVars, pollVars, svcVars, facadeVars>>

\* resolveTemplate after GetJobTemplates' request: the list is cached and
\* searched, or the error ends Launch
LaunchFetch(o) ==
    /\ lpc = "fetch"
    /\ (o = "canceled") <=> RequestAborted("fetch")
    /\ fetches' = fetches + 1
    /\ authProbes' = ProbesAfterRequest
    /\ IF o # "ok"
       THEN /\ lpc' = "done"
            /\ ltpl' = [NoTemplate EXCEPT !.tried = TRUE, !.fetchFailed = TRUE]
            /\ lres' = ResolveResult(lopt.TemplateNameOrID, NoTemplate,
                          <<"failed to fetch job templates: ">>
                          \o IF o = "canceled" THEN CanceledFetchErr(baseURL)
                                               ELSE MakeRequestErr(o))
            /\ UNCHANGED <<items, stats>>
       ELSE LET r == resolveTemplate(srvTemplates, lopt.TemplateNameOrID)
            IN /\ CanLock(cmu)
               /\ items' = Store(items, TemplatesKey, srvTemplates, now, TemplatesTTL)
               /\ stats' = StatsAfterSet(TemplatesKey, srvTemplates, TemplatesTTL)
               /\ lpc' = AfterResolve(r)
               /\ ltpl' = [tried |-> TRUE, fetchFailed |-> FALSE,
                           found |-> r.found, ID |-> r.ID, Name |-> r.Name]
               /\ lres' = ResolveResult(lopt.TemplateNameOrID, r, r.err)
    /\ UNCHANGED <<now, advances, running, stopClosed, closes, cmu, cpc, cloc,
                   calls, getsDone, spc, nextTick, sweepN, clientVars,
                   lopt, lprobe, lastOutcome, lastErr, attempts, delays, probes,
                   launches, lctx,
                   token, username, password, apc, aloc, resolveVars, pollVars, svcVars, facadeVars>>

\* validateLaunchPermissions: GET .../launch/
LaunchProbe(o) ==
    /\ lpc = "probe"
    /\ (o = CanceledOutcome) <=> RequestAborted("probe")
    /\ probes' = probes + 1
    /\ lprobe' = o
    /\ IF ProbeFails(o)
       THEN /\ lpc' = "done"
            /\ lres' = Failure("probe", <<"launch validation failed for template ">>
                            \o Itoa(ltpl.ID) \o <<": ">> \o ProbeErr(baseURL, ltpl.ID, o))
       ELSE /\ lpc' = "attempt"
            /\ UNCHANGED lres
    /\ UNCHANGED <<now, advances, cacheVars, clientVars, lopt, ltpl, lastOutcome,
                   lastErr, attempts, delays, fetches, launches, lctx,
                   authVars, resolveVars, pollVars, svcVars, facadeVars>>

\* one pass of executeLaunchWithRetry's loop: executeSingleLaunch and what
\* follows it (return, break, or go on to the delay)
LaunchAttempt(o) ==
    /\ lpc = "attempt"
    /\ (o = CanceledOutcome) <=> RequestAborted("attempt")
    /\ attempts' = attempts + 1
    /\ lastOutcome' = o
    /\ IF SingleLaunchOK(o)
       THEN /\ lpc' = "done"
            /\ lres' = LaunchResult(ltpl.Name, o)
            /\ UNCHANGED lastErr
       ELSE LET e == SingleLaunchErr(baseURL, ltpl.ID, o)
                next == AfterFailedAttempt(attempts + 1, e)
            IN /\ lastErr' = e
               /\ lpc' = next
               /\ lres' = IF next = "done"
                          THEN Failure("launch",
                                  <<"failed to launch job for template ">>
                                  \o Itoa(ltpl.ID) \o <<": ">>
                                  \o <<"all launch attempts failed, last error: ">> \o e)
                          ELSE lres
    /\ UNCHANGED <<now, advances, cacheVars, clientVars, lopt, ltpl, lprobe, delays,
                   probes, fetches, launches, lctx,
                   authVars, resolveVars, pollVars, svcVars, facadeVars>>

\* time.Sleep(retryDelay) between attempts
LaunchSleep ==
    /\ lpc = "sleep"
    /\ delays' = delays + 1
    /\ now' = now + retryDelay
    /\ lpc' = "attempt"
    /\ UNCHANGED <<advances, cacheVars, clientVars, lopt, ltpl, lprobe, lastOutcome,
                   lastErr, attempts, probes, fetches, lres, launches, lctx,
                   authVars, resolveVars, pollVars, svcVars, facadeVars>>

\* the template, the probe replies and the attempt replies of the
\* concurrent exploration
ConcOutcomes == {"backend", "ok"}
ConcIdentifiers == {<<"deploy">>}
ConcProbeOutcomes ==
    {[NoOutcome EXCEPT !.kind = "status", !.status = s] : s \in {200, 403}}
ConcAttemptOutcomes ==
    {[NoOutcome EXCEPT !.kind = "status", !.status = 502],
     [NoOutcome EXCEPT !.kind = "status", !.status = 201, !.json = TRUE,
                       !.job = 1234, !.url = JobURL(DefaultBaseURL, 1234),
                       !.state = "pending"]}

\* the caller cancels the ctx it gave to Launch while Launch is running
CallerCancel ==
    /\ lpc \in {"fetch", "probe", "attempt", "sleep"} /\ ~lctx.done
    /\ lctx' = [done |-> TRUE, at |-> lpc]
    /\ UNCHANGED <<now, advances, cacheVars, clientVars, lpc, lopt, ltpl, lprobe,
                   lastOutcome, lastErr, attempts, delays, probes, fetches, lres,
                   launches, authVars, resolveVars, pollVars, svcVars, facadeVars>>

(***************************************************************************)
(* The two name-or-id lookups on one template list                         *)
(* (resolveTemplate, Client.GetJobTemplateByName)                          *)
(***************************************************************************)
\* Bound: identifiers resolved by each lookup in a run
MaxResolves == 2

ResolveLists ==
    { <<>>,
      <<[ID |-> 7, Name |-> <<"deploy">>], [ID |-> 8, Name |-> <<"backup">>]>>,
      <<[ID |-> 7, Name |-> <<"deploy">>], [ID |-> 8, Name |-> <<"7">>]>>,
      <<[ID |-> 7, Name |-> <<"deploy">>], [ID |-> 9, Name |-> <<"deploy">>]>>,
      <<[ID |-> 8, Name |-> <<"0", "0", "7">>], [ID |-> 7, Name |-> <<"deploy">>]>>,
      <<[ID |-> 12, Name |-> <<"7">>], [ID |-> 7, Name |-> <<"1", "2">>],
        [ID |-> 3, Name |-> <<"backup">>]>> }
ResolveIdents ==
    { <<"deploy">>, <<"backup">>, <<"7">>, <<"8">>, <<"9">>, <<"1", "2">>, <<"3">>,
      <<"0", "0", "7">>, <<"+", "7">>, <<"nope">> }

\* strings.Join(availableTemplates, ", ") over "%s (ID: %d)"
RECURSIVE AvailableTemplatesText(_)
AvailableTemplatesText(ts) ==
    IF ts = <<>> THEN <<>>
    ELSE Head(ts).Name \o <<" (ID: ">> \o Itoa(Head(ts).ID) \o <<")">>
         \o (IF Tail(ts) = <<>> THEN <<>> ELSE <<", ">> \o AvailableTemplatesText(Tail(ts)))

\* GetJobTemplateByName's search on the fetched list: by exact name first,
\* then by numeric id
GetJobTemplateByName(ts, nameOrID) ==
    LET a == Atoi(nameOrID)
        byName == {i \in 1..Len(ts) : ts[i].Name = nameOrID}
        byID == {i \in 1..Len(ts) : a.ok /\ ts[i].ID = a.val}
    IN IF byName # {}
       THEN [found |-> TRUE, ID |-> ts[MinOf(byName)].ID,
             Name |-> ts[MinOf(byName)].Name, err |-> <<>>]
       ELSE IF byID # {}
       THEN [found |-> TRUE, ID |-> ts[MinOf(byID)].ID, Name |-> ts[MinOf(byID)].Name,
             err |-> <<>>]
       ELSE [found |-> FALSE, ID |-> 0, Name |-> <<>>,
             err |-> <<"job template ", "'">> \o nameOrID
                     \o <<"'", " ", "not found", ". Available templates: ">>
                     \o AvailableTemplatesText(ts)]

NoResults == [x \in {} |-> x]

ResolveIdle == rl = NoResults /\ rc = NoResults

\* resolveTemplate's search applied to one more identifier
ResolveByLauncher(nameOrID) ==
    /\ nameOrID \notin DOMAIN rl /\ Cardinality(DOMAIN rl) < MaxResolves
    /\ rl' = (nameOrID :> resolveTemplate(rlist, nameOrID)) @@ rl
    /\ UNCHANGED <<now, advances, cacheVars, clientVars, launchVars, authVars, pollVars, svcVars, facadeVars,
                   rlist, rc>>

\* GetJobTemplateByName's search applied to one more identifier
ResolveByClient(nameOrID) ==
    /\ nameOrID \notin DOMAIN rc /\ Cardinality(DOMAIN rc) < MaxResolves
    /\ rc' = (nameOrID :> GetJobTemplateByName(rlist, nameOrID)) @@ rc
    /\ UNCHANGED <<now, advances, cacheVars, clientVars, launchVars, authVars, pollVars, svcVars, facadeVars,
                   rlist, rl>>

NextResolve ==
    \/ \E n \in ResolveIdents : ResolveByLauncher(n)
    \/ \E n \in ResolveIdents : ResolveByClient(n)

(***************************************************************************)
(* Credentials (Client.authenticate and its strategies, makeRequest's      *)
(* Basic-Auth probe)                                                       *)
(***************************************************************************)
\* Bound: client operations started in a run of the credentials exploration
MaxAuthOps == 2

AuthThreads == {"a1", "a2"}

\* Client.token is a Go string: a pointer word and a length word, stored one
\* after the other and without a lock.  A token is named by the text it
\* holds; [ptr |-> x, len |-> y] is the bytes of x cut to the length of y.
\* The backend issues texts of different lengths.
TokenOf(text) == [ptr |-> text, len |-> text]
NoToken == TokenOf("")
ConfiguredToken == TokenOf("cfg")
\* the token text the backend issues to each caller
Issued(a) == IF a = "a1" THEN "issued-1" ELSE "issued-two"

\* ClientConfig: [Token, Username, Password]
AuthConfigs ==
    { [Token |-> ConfiguredToken, Username |-> "", Password |-> ""],
      [Token |-> NoToken, Username |-> "admin", Password |-> "secret"],
      [Token |-> NoToken, Username |-> "admin", Password |-> ""],
      [Token |-> NoToken, Username |-> "", Password |-> ""] }
TokenConfig == [Token |-> ConfiguredToken, Username |-> "", Password |-> ""]

\* what the backend answers to a strategy's request: the success status, a
\* refusal, or (token endpoints) the success status with no token in the body
StrategyOutcomes == {"ok", "refused", "notoken"}

BasicEndpoint == "GET /api/v2/job_templates/"
TokensEndpoint == "POST /api/v2/tokens/"
LegacyEndpoint == "POST /api/v2/authtoken/"

\* the error text of each strategy
BasicErr == <<"basic auth test failed with status ", "4", "0", "1">>
TokensErr(outcome) ==
    IF outcome = "notoken" THEN <<"token ", "not found", " in response">>
    ELSE <<"token creation failed with status ", "4", "0", "1", ": ">>
LegacyErr == <<"authentication", " failed with status ", "4", "0", "1", ": ">>
NoCredentialsErr == <<"either token or username/password must be provided">>

IdleA == [saw |-> FALSE, log |-> <<>>, outs |-> <<>>, got |-> "", pending |-> {},
          stored |-> FALSE, ok |-> FALSE, err |-> <<>>]

AuthIdle(config) ==
    /\ token = config.Token
    /\ username = config.Username
    /\ password = config.Password
    /\ apc = [a \in AuthThreads |-> "idle"]
    /\ aloc = [a \in AuthThreads |-> IdleA]
    /\ authProbes = 0

\* authenticate up to its first request
AuthBegin(a) ==
    /\ apc[a] = "idle"
    /\ IF token.len # ""
       THEN /\ apc' = [apc EXCEPT ![a] = "done"]
            /\ aloc' = [aloc EXCEPT ![a].saw = TRUE, ![a].ok = TRUE]
       ELSE IF username = "" \/ password = ""
       THEN /\ apc' = [apc EXCEPT ![a] = "done"]
            /\ aloc' = [aloc EXCEPT ![a].err = NoCredentialsErr]
       ELSE /\ apc' = [apc EXCEPT ![a] = "basic"]
            /\ UNCHANGED aloc
    /\ UNCHANGED <<now, advances, cacheVars, clientVars, launchVars, resolveVars,
                   pollVars, svcVars, facadeVars, token, username, password, authProbes>>

\* an authenticate that goes on to the token endpoint whatever the probe said
AfterBasic_on(outcome) == "tokens"

\* where authenticate goes after testBasicAuth
AfterBasic(outcome) == IF outcome = "ok" THEN "done" ELSE "tokens"

\* testBasicAuth: GET /api/v2/job_templates/ with Basic credentials
AuthBasic(a, outcome) ==
    /\ apc[a] = "basic" /\ outcome \in {"ok", "refused"}
    /\ apc' = [apc EXCEPT ![a] = AfterBasic(outcome)]
    /\ aloc' = [aloc EXCEPT ![a].log = Append(@, BasicEndpoint),
                            ![a].outs = Append(@, outcome),
                            ![a].ok = (outcome = "ok"),
                            ![a].err = IF outcome = "ok" THEN <<>> ELSE BasicErr]
    /\ UNCHANGED <<now, advances, cacheVars, clientVars, launchVars, resolveVars,
                   pollVars, svcVars, facadeVars, token, username, password, authProbes>>

\* createTokenViaTokensEndpoint up to the assignment of c.token
AuthTokens(a, outcome) ==
    /\ apc[a] = "tokens"
    /\ apc' = [apc EXCEPT ![a] = IF outcome = "ok" THEN "store" ELSE "legacy"]
    /\ aloc' = [aloc EXCEPT ![a].log = Append(@, TokensEndpoint),
                            ![a].outs = Append(@, outcome),
                            ![a].got = IF outcome = "ok" THEN Issued(a) ELSE "",
                            ![a].pending = IF outcome = "ok" THEN {"ptr", "len"} ELSE {},
                            ![a].err = IF outcome = "ok" THEN <<>> ELSE TokensErr(outcome)]
    /\ UNCHANGED <<now, advances, cacheVars, clientVars, launchVars, resolveVars,
                   pollVars, svcVars, facadeVars, token, username, password, authProbes>>

\* createTokenViaLegacyEndpoint up to the assignment of c.token; a success
\* body without a token decodes to the empty Token, which is assigned too
AuthLegacy(a, outcome) ==
    /\ apc[a] = "legacy"
    /\ apc' = [apc EXCEPT ![a] = IF outcome = "refused" THEN "done" ELSE "store"]
    /\ aloc' = [aloc EXCEPT ![a].log = Append(@, LegacyEndpoint),
                            ![a].outs = Append(@, outcome),
                            ![a].got = IF outcome = "ok" THEN Issued(a) ELSE "",
                            ![a].pending = IF outcome = "refused" THEN {}
                                           ELSE {"ptr", "len"},
                            ![a].err = IF outcome = "refused" THEN LegacyErr ELSE <<>>]
    /\ UNCHANGED <<now, advances, cacheVars, clientVars, launchVars, resolveVars,
                   pollVars, svcVars, facadeVars, token, username, password, authProbes>>

\* c.token = ...: one word of the string is stored; after the second word the
\* strategy returns nil
AuthStoreWord(a, word) ==
    /\ apc[a] = "store" /\ word \in aloc[a].pending
    /\ token' = IF word = "ptr" THEN [token EXCEPT !.ptr = aloc[a].got]
                ELSE [token EXCEPT !.len = aloc[a].got]
    /\ aloc' = [aloc EXCEPT ![a].pending = @ \ {word},
                            ![a].stored = (aloc[a].pending = {word}),
                            ![a].ok = (aloc[a].pending = {word})]
    /\ apc' = [apc EXCEPT ![a] = IF aloc[a].pending = {word} THEN "done" ELSE "store"]
    /\ UNCHANGED <<now, advances, cacheVars, clientVars, launchVars, resolveVars,
                   pollVars, svcVars, facadeVars, username, password, authProbes>>

(***************************************************************************)
(* AutomationService.CheckJobStatus                                        *)
(***************************************************************************)
\* Bounds: status polls and list operations started in a run
MaxPolls == 3
MaxListOps == 3

\* job ids handed to CheckJobStatus that it refuses
InvalidJobIDs == {0}
\* time that passes between list operations, in seconds
ListDeltas == {300, 301}

PollIdle == reported = [id \in JobIDs |-> None] /\ cancelOut = [id \in JobIDs |-> <<>>]

\* CheckJobStatus with args.JobID <= 0: refused before any lookup
CheckJobStatusInvalid(w, id, seq) ==
    /\ CanStart(w, seq) /\ id <= 0
    /\ ops' = ops + 1
    /\ wpc' = [wpc EXCEPT ![w] = "done"]
    /\ wloc' = [wloc EXCEPT ![w] =
          [IdleW EXCEPT !.op = "CheckJobStatus", !.id = id, !.before = items,
                        !.err = "valid job_id is required"]]
    /\ UNCHANGED <<now, advances, cacheVars, launchVars, authVars, resolveVars, pollVars, svcVars, facadeVars,
                   baseURL, srvTemplates, srvJob, budget, createdSince>>

\* CancelJob with args.JobID <= 0: refused before any request
CancelJobInvalid(w, id, seq) ==
    /\ CanStart(w, seq) /\ id <= 0
    /\ ops' = ops + 1
    /\ wpc' = [wpc EXCEPT ![w] = "done"]
    /\ wloc' = [wloc EXCEPT ![w] =
          [IdleW EXCEPT !.op = "CancelJob", !.id = id, !.before = items,
                        !.err = "valid job_id is required"]]
    /\ UNCHANGED <<now, advances, cacheVars, launchVars, authVars, resolveVars, pollVars, svcVars, facadeVars,
                   baseURL, srvTemplates, srvJob, budget, createdSince>>

(***************************************************************************)
(* Prometheus client (internal/prometheus): Query, QueryRange              *)
(***************************************************************************)
\* Bound: Prometheus client operations in a run
MaxQueries == 3

\* c.cache.Set(cacheKey, resp, 30*time.Second), in seconds
PromTTL == 30

Queries == {"up", "rate(http_requests_total[5m])"}
\* time that passes between the steps, in seconds
PromDeltas == {10, 20, 31}

\* hex.EncodeToString(sha256.Sum256([]byte(query))[:8]) of the queries above
Sha256Prefix(query) ==
    CASE query = "up" -> "75a288c0d6898c5f"
      [] query = "rate(http_requests_total[5m])" -> "84ea062873005aed"

\* getCacheKey
getCacheKey(query) == <<"prom:query:", Sha256Prefix(query)>>

\* what makeRequest can come to: a decoded response with status "success",
\* a transport error, a status >= 400, an undecodable body, or a decoded
\* response whose status is not "success"
PromOutcomes == {"ok", "transport", "status", "decode", "failed"}

\* makeRequest's error text
PromErr(outcome) ==
    CASE outcome = "transport" -> "failed to make request: connection refused"
      [] outcome = "status" -> "API error: status 503 - "
      [] outcome = "decode" -> "failed to decode response: unexpected EOF"
      [] outcome = "failed" -> "query failed: bad_data - parse error"
      [] OTHER -> NoErr

IdleP == [op |-> None, query |-> "", at |-> 0, reply |-> NoReply, err |-> NoErr,
          val |-> NoValue, cached |-> FALSE]
NoFetch == [ok |-> FALSE, at |-> 0, resp |-> NoValue]

\* NewPrometheusClient: an empty cache, nothing asked yet
PromIdle ==
    /\ promItems = EmptyItems /\ promStats = ZeroStats
    /\ ppc = "idle" /\ ploc = IdleP
    /\ promRequests = 0 /\ pops = 0
    /\ plast = [q \in Queries |-> NoFetch]

\* Query up to makeRequest: c.cache.Get(cacheKey); a hit is returned
QueryBegin(query) ==
    /\ ppc = "idle" /\ pops < MaxQueries
    /\ pops' = pops + 1
    /\ LET r == Lookup(promItems, getCacheKey(query), now)
       IN /\ promStats' = IF r.ok THEN recordHit(promStats) ELSE recordMiss(promStats)
          /\ ppc' = IF r.ok THEN "done" ELSE "req"
          /\ ploc' = [IdleP EXCEPT !.op = "Query", !.query = query, !.at = now,
                                   !.cached = r.ok, !.val = r.value]
    /\ UNCHANGED <<now, advances, cacheVars, clientVars, launchVars, authVars,
                   resolveVars, pollVars, facadeVars, promItems, promRequests, plast>>

\* QueryRange up to makeRequest: the cache is not consulted
QueryRangeBegin(query) ==
    /\ ppc = "idle" /\ pops < MaxQueries
    /\ pops' = pops + 1
    /\ ppc' = "req"
    /\ ploc' = [IdleP EXCEPT !.op = "QueryRange", !.query = query, !.at = now]
    /\ UNCHANGED <<now, advances, cacheVars, clientVars, launchVars, authVars,
                   resolveVars, pollVars, facadeVars, promItems, promStats, promRequests, plast>>

\* the HTTP exchange of makeRequest: Prometheus evaluates the query at the
\* time the request names (or the exchange fails)
PromServe(outcome) ==
    /\ ppc = "req"
    /\ ppc' = "resp"
    /\ promRequests' = promRequests + 1
    /\ ploc' = [ploc EXCEPT !.reply =
          [kind |-> outcome,
           data |-> IF outcome = "ok"
                    THEN [query |-> ploc.query, time |-> ploc.at,
                          resultType |-> IF ploc.op = "Query" THEN "vector" ELSE "matrix"]
                    ELSE NoValue]]
    /\ UNCHANGED <<now, advances, cacheVars, clientVars, launchVars, authVars,
                   resolveVars, pollVars, facadeVars, promItems, promStats, plast, pops>>

\* a Query that keeps its response for 10 seconds
CachedResponse_short(its, query, resp, t) == Store(its, getCacheKey(query), resp, t, 10)

\* Query: c.cache.Set(cacheKey, resp, 30*time.Second)
CachedResponse(its, query, resp, t) == Store(its, getCacheKey(query), resp, t, PromTTL)

\* Query after makeRequest: the error is returned, or the response is
\* cached for 30 seconds and returned
QueryReceive ==
    /\ ppc = "resp" /\ ploc.op = "Query"
    /\ ppc' = "done"
    /\ IF ploc.reply.kind # "ok"
       THEN /\ ploc' = [ploc EXCEPT !.err = PromErr(ploc.reply.kind), !.reply = NoReply]
            /\ UNCHANGED <<promItems, promStats, plast>>
       ELSE /\ promItems' = CachedResponse(promItems, ploc.query, ploc.reply.data, now)
            /\ promStats' = updateSize(recordSet(promStats),
                                       Cardinality(DOMAIN promItems'))
            /\ ploc' = [ploc EXCEPT !.val = ploc.reply.data, !.reply = NoReply]
            /\ plast' = [plast EXCEPT ![ploc.query] =
                            [ok |-> TRUE, at |-> now, resp |-> ploc.reply.data]]
    /\ UNCHANGED <<now, advances, cacheVars, clientVars, launchVars, authVars,
                   resolveVars, pollVars, facadeVars, promRequests, pops>>

\* QueryRange after makeRequest: its result, as it is
QueryRangeReceive ==
    /\ ppc = "resp" /\ ploc.op = "QueryRange"
    /\ ppc' = "done"
    /\ ploc' = IF ploc.reply.kind # "ok"
               THEN [ploc EXCEPT !.err = PromErr(ploc.reply.kind), !.reply = NoReply]
               ELSE [ploc EXCEPT !.val = ploc.reply.data, !.reply = NoReply]
    /\ UNCHANGED <<now, advances, cacheVars, clientVars, launchVars, authVars,
                   resolveVars, pollVars, facadeVars, promItems, promStats, promRequests, plast,
                   pops>>

\* the operation hands its result to the caller
PromReturn ==
    /\ ppc = "done"
    /\ ppc' = "idle"
    /\ ploc' = IdleP
    /\ UNCHANGED <<now, advances, cacheVars, clientVars, launchVars, authVars,
                   resolveVars, pollVars, facadeVars, promItems, promStats, promRequests, plast,
                   pops>>

\* the sweeper of the Prometheus client's cache: removeExpired
PromSweep ==
    /\ ppc \in {"idle", "req", "resp", "done"}
    /\ ExpiredKeys(promItems, now) # {}
    /\ promItems' = Swept(promItems, now)
    /\ promStats' = updateSize(
                       recordEvictions(promStats, Cardinality(ExpiredKeys(promItems, now))),
                       Cardinality(DOMAIN promItems'))
    /\ UNCHANGED <<now, advances, cacheVars, clientVars, launchVars, authVars,
                   resolveVars, pollVars, facadeVars, ppc, ploc, promRequests, plast, pops>>

\* every variable group outside the part a specification explores, at rest
(***************************************************************************)
(* AutomationService.Autoscale                                             *)
(***************************************************************************)
\* oldReplicas := 3
oldReplicas == 3

\* time.Now().Unix() when the service starts taking calls
ScaleEpoch == 1700000000

ScaleActions == {"", "scale_up", "scale_down", "analyze", "auto", "restart"}
ScaleServices == {"", "web"}
ScaleReplicas == {-1, 0, 1, 4}
ScaleThresholds == {"", "cpu_high", "load_high"}
ScaleDeltas == {45}

\* HealthService.AnalyzeLoad
AnalyzeLoad(threshold) ==
    CASE threshold = "cpu_high" ->
            <<"CPU usage is ", "high", " (85%) - recommend scaling up">>
      [] threshold = "memory_high" ->
            <<"Memory usage is ", "high", " (90%) - recommend scaling up">>
      [] threshold = "load_high" ->
            <<"System load is ", "high", " - recommend scaling up">>
      [] OTHER -> <<"Current metrics show normal resource usage - no scaling needed">>

\* HealthService.GetSystemMetrics, in tenths
GetSystemMetrics == [cpu |-> 455, memory |-> 672, disk |-> 231, load |-> 18]

\* a scale-down without the floor
ScaleDownFrom_nofloor(old) == old - 1

\* if oldReplicas-1 > 1 { oldReplicas - 1 } else { 1 }
ScaleDownFrom(old) == IF old - 1 > 1 THEN old - 1 ELSE 1

\* fmt.Errorf("unknown action: %s", args.Action) for the actions above
UnknownActionErr(action) ==
    CASE action = "restart" -> "unknown action: restart"
      [] OTHER -> "unknown action: "

NoScaleOutput == [Action |-> "", Service |-> "", OldReplicas |-> 0, NewReplicas |-> 0,
                  Reason |-> <<>>, JobID |-> 0, Status |-> ""]

\* Autoscale called at Unix time t: [err, out]
Autoscale(args, t) ==
    LET service == IF args.Service = "" THEN "api" ELSE args.Service
        reason == AnalyzeLoad(args.Threshold)
        metrics == GetSystemMetrics
        up == metrics.cpu > 800 \/ metrics.memory > 850
        down == metrics.cpu < 200 /\ metrics.memory < 300 /\ oldReplicas > 1
        new == CASE args.Action = "scale_up" ->
                       IF args.Replicas > 0 THEN args.Replicas ELSE oldReplicas + 2
                 [] args.Action = "scale_down" ->
                       IF args.Replicas > 0 THEN args.Replicas
                       ELSE ScaleDownFrom(oldReplicas)
                 [] args.Action = "analyze" ->
                       IF Contains(reason, <<"high">>) THEN oldReplicas + 1
                       ELSE IF Contains(reason, <<"low">>) THEN ScaleDownFrom(oldReplicas)
                       ELSE oldReplicas
                 [] args.Action = "auto" ->
                       IF up THEN oldReplicas + 2
                       ELSE IF down THEN ScaleDownFrom(oldReplicas)
                       ELSE oldReplicas
                 [] OTHER -> oldReplicas
        why == CASE args.Action = "scale_up" -> <<"Manual scale up requested">>
                 [] args.Action = "scale_down" -> <<"Manual scale down requested">>
                 [] args.Action = "analyze" -> reason
                 [] args.Action = "auto" ->
                       IF up THEN <<"Auto-scaling up due to ", "high", " resource usage">>
                       ELSE IF down
                       THEN <<"Auto-scaling down due to ", "low", " resource usage">>
                       ELSE <<"No scaling needed - metrics within normal range">>
                 [] OTHER -> <<>>
        job == IF \/ args.Action \in {"scale_up", "scale_down"}
                  \/ (args.Action = "auto" /\ (up \/ down))
               THEN t ELSE 0
    IN IF args.Action = "" THEN [err |-> "action is required", out |-> NoScaleOutput]
       ELSE IF args.Action \notin {"scale_up", "scale_down", "analyze", "auto"}
       THEN [err |-> UnknownActionErr(args.Action), out |-> NoScaleOutput]
       ELSE [err |-> NoErr,
             out |-> [Action |-> args.Action, Service |-> service,
                      OldReplicas |-> oldReplicas, NewReplicas |-> new,
                      Reason |-> why, JobID |-> job,
                      Status |-> IF job > 0 THEN "job_launched" ELSE "completed"]]

NoScale == [called |-> FALSE,
            args |-> [Action |-> "", Service |-> "", Replicas |-> 0, Threshold |-> ""],
            err |-> NoErr, out |-> NoScaleOutput]


\* one call of Autoscale
AutoscaleCall(action, service, replicas, threshold) ==
    /\ LET args == [Action |-> action, Service |-> service, Replicas |-> replicas,
                    Threshold |-> threshold]
           r == Autoscale(args, now)
       IN scaleOut' = [called |-> TRUE, args |-> args, err |-> r.err, out |-> r.out]
    /\ UNCHANGED <<now, advances, cacheVars, clientVars, launchVars, authVars,
                   resolveVars, pollVars, svcVars, healthOut, toolOut, statsOut>>

(***************************************************************************)
(* AutomationService.CheckHealth, HealthService.CheckComponent             *)
(***************************************************************************)
componentsToCheck == <<"api", "database", "cache", "web", "workers", "monitoring">>
HealthComponents ==
    {"", "all", "api", "database", "cache", "web", "workers", "monitoring", "queue"}
HealthDeltas == {1, 45}

\* HealthService.CheckComponent: the status table, "unknown" for other names
CheckComponent(component, deep) ==
    LET known == \E i \in 1..Len(componentsToCheck) : componentsToCheck[i] = component
        status == IF ~known THEN "unknown"
                  ELSE IF component = "cache" THEN "warning" ELSE "healthy"
    IN [Status |-> status,
        Details |-> IF ~known THEN <<"Component '", component, "' not recognized">>
                    ELSE IF deep THEN <<component, " (deep check completed)">>
                    ELSE <<component>>,
        LastChecked |-> now]

\* a roll-up that counts an unknown component as a warning
OverallStatus_unknown(statuses) ==
    IF \E i \in 1..Len(statuses) : statuses[i] = "critical" THEN "critical"
    ELSE IF \E i \in 1..Len(statuses) : statuses[i] \in {"warning", "unknown"}
    THEN "warning"
    ELSE "healthy"

\* CheckHealth's roll-up of the statuses it collected
OverallStatus(statuses) ==
    LET overallHealthy ==
            ~\E i \in 1..Len(statuses) : statuses[i] \in {"critical", "warning"}
        hasCritical == \E i \in 1..Len(statuses) : statuses[i] = "critical"
    IN IF overallHealthy THEN "healthy"
       ELSE IF hasCritical THEN "critical" ELSE "warning"

\* the recommendation CheckHealth appends for one component
Recommendation(comp, status) ==
    IF status = "warning"
    THEN CASE comp = "database" -> <<"Consider optimizing database queries or scaling database resources">>
           [] comp = "cache" -> <<"Check cache hit ratio and consider increasing cache size">>
           [] comp = "api" -> <<"Monitor API response times and consider horizontal scaling">>
           [] OTHER -> <<>>
    ELSE IF status = "critical"
    THEN << <<"URGENT: ", comp, " component requires immediate attention">> >>
    ELSE <<>>

RECURSIVE Recommendations(_, _)
Recommendations(names, deep) ==
    IF names = <<>> THEN <<>>
    ELSE Recommendation(Head(names), CheckComponent(Head(names), deep).Status)
            \o Recommendations(Tail(names), deep)

\* CheckHealth
CheckHealth(component, deep) ==
    LET names == IF component # "" /\ component # "all"
                 THEN <<component>> ELSE componentsToCheck
        checked == {names[i] : i \in 1..Len(names)}
    IN [OverallStatus |->
            OverallStatus([i \in 1..Len(names) |-> CheckComponent(names[i], deep).Status]),
        Components |-> [c \in checked |-> CheckComponent(c, deep)],
        Timestamp |-> now,
        Recommendations |-> Recommendations(names, deep)]

NoHealth == [called |-> FALSE, args |-> [Component |-> "", Deep |-> FALSE],
             out |-> [OverallStatus |-> "", Components |-> <<>>, Timestamp |-> 0,
                      Recommendations |-> <<>>]]

\* one call of CheckHealth
CheckHealthCall(component, deep) ==
    /\ healthOut' = [called |-> TRUE, args |-> [Component |-> component, Deep |-> deep],
                     out |-> CheckHealth(component, deep)]
    /\ UNCHANGED <<now, advances, cacheVars, clientVars, launchVars, authVars,
                   resolveVars, pollVars, svcVars, scaleOut, toolOut, statsOut>>

(***************************************************************************)
(* The tool adapter: AutomationHandler.CheckAWXJobStatus,                  *)
(* AutoscaleAutosphere and CreateJobTemplate.  A tool argument is either   *)
(* absent or a string; integer arguments arrive as strings.                *)
(***************************************************************************)
\* an absent argument that would carry an integer, and one that would carry a word
Absent == [set |-> FALSE, text |-> <<>>]
AbsentWord == [set |-> FALSE, text |-> ""]
Arg(text) == [set |-> TRUE, text |-> text]

\* the strings offered for an integer argument
IntTexts == {<<"7">>, <<"0">>, <<"5">>, <<"-", "1">>, <<"abc">>, <<>>}
IntArgs == {Absent} \cup {Arg(s) : s \in IntTexts}
NameArgs == {AbsentWord, Arg("nightly")}
PlaybookArgs == {AbsentWord, Arg("site.yml")}
ActionArgs == {AbsentWord} \cup {Arg(a) : a \in {"scale_up", "scale_down", "restart"}}
\* what the backend answers to the request of a façade call
FacadeOutcomes == {"ok", "backend"}

\* request.RequireString: [ok, val]
RequireString(a) == [ok |-> a.set, val |-> a.text]
\* request.GetString
GetString(a, default) == IF a.set THEN a.text ELSE default

NoPassed == [none |-> TRUE]
\* a handler's early return: a tool-result error, the façade is not called
ToolError(message) ==
    [isError |-> TRUE, message |-> message, cause |-> NoErr, invoked |-> FALSE,
     passed |-> NoPassed, posted |-> <<>>]
\* a handler's return after the façade call r: [err, posted]; the message
\* of a failure is prefix: cause
ToolAfter(r, prefix, passed) ==
    [isError |-> r.err # NoErr,
     message |-> IF r.err # NoErr THEN prefix ELSE "", cause |-> r.err,
     invoked |-> TRUE, passed |-> passed, posted |-> r.posted]

\* AutomationService.CheckJobStatus as the handler sees it: [err, posted]
CheckJobStatusResult(args, outcome) ==
    IF args.JobID <= 0 THEN [err |-> "valid job_id is required", posted |-> <<>>]
    ELSE [err |-> IF outcome = "ok" THEN NoErr ELSE "failed to get job status",
          posted |-> <<>>]

\* AutomationHandler.CheckAWXJobStatus
CheckAWXJobStatus(jobID, outcome) ==
    LET n == Atoi(jobID.text)
        args == [JobID |-> n.val]
    IN IF ~RequireString(jobID).ok THEN ToolError("job_id is required")
       ELSE IF ~n.ok THEN ToolError("job_id must be a valid integer")
       ELSE ToolAfter(CheckJobStatusResult(args, outcome),
                      "Failed to check AWX job status", args)

\* the replicas a handler passes when the string is no integer
\* (args.Replicas keeps its zero value)
ParsedOrZero(text) == IF Atoi(text).ok THEN Atoi(text).val ELSE 0

\* AutomationHandler.AutoscaleAutosphere, called at Unix time t
AutoscaleAutosphere(action, service, replicas, threshold, t) ==
    LET args == [Action |-> action.text, Service |-> service,
                 Replicas |-> ParsedOrZero(GetString(replicas, <<"0">>)),
                 Threshold |-> threshold]
        r == Autoscale(args, t)
    IN IF ~RequireString(action).ok
       THEN ToolError("action is required (scale_up, scale_down, analyze, auto)")
       ELSE ToolAfter([err |-> r.err, posted |-> <<>>],
                      "Failed to perform autoscaling", args)

\* the verbosity levels a job template accepts
MinVerbosity == 0
MaxVerbosity == 5

\* a façade that forwards any verbosity
ValidVerbosity_any(v) == TRUE

ValidVerbosity(v) == v >= MinVerbosity /\ v <= MaxVerbosity

\* AutomationService.CreateJobTemplate: rejects a verbosity outside 0..5 with
\* a ValidationError, else sends POST /api/v2/job_templates/ : [err, posted]
CreateJobTemplateResult(args, outcome) ==
    IF ~ValidVerbosity(args.Verbosity)
    THEN [err |-> "ValidationError", posted |-> <<>>]
    ELSE [err |-> IF outcome = "ok" THEN NoErr ELSE "failed to create job template",
          posted |-> <<args>>]

\* AutomationHandler.CreateJobTemplate
CreateJobTemplate(name, inventory, project, playbook, verbosity, outcome) ==
    LET inv == Atoi(inventory.text)
        prj == Atoi(project.text)
        args == [Name |-> name.text, Inventory |-> inv.val, Project |-> prj.val,
                 Playbook |-> playbook.text, Description |-> "", JobType |-> "run",
                 Verbosity |-> ParsedOrZero(GetString(verbosity, <<"0">>))]
    IN IF ~RequireString(name).ok THEN ToolError("name is required")
       ELSE IF ~RequireString(inventory).ok THEN ToolError("inventory ID is required")
       ELSE IF ~inv.ok THEN ToolError("inventory must be a valid integer ID")
       ELSE IF ~RequireString(project).ok THEN ToolError("project ID is required")
       ELSE IF ~prj.ok THEN ToolError("project must be a valid integer ID")
       ELSE IF ~RequireString(playbook).ok THEN ToolError("playbook path is required")
       ELSE ToolAfter(CreateJobTemplateResult(args, outcome),
                      "Failed to create job template", args)

\* the extra_vars argument as the JSON tokens of its text
Punct(k) == [kind |-> k, text |-> ""]
Str(s) == [kind |-> "str", text |-> s]
Num(s) == [kind |-> "num", text |-> s]
JSONScalars == {"str", "num", "null", "true"}
ExtraVarsTexts ==
    { <<>>,
      <<Punct("{"), Punct("}")>>,
      <<Punct("{"), Str("env"), Punct(":"), Str("prod"), Punct("}")>>,
      <<Punct("{"), Str("env"), Punct(":"), Str("prod"), Punct(","),
        Str("env"), Punct(":"), Str("dev"), Punct("}")>>,
      <<Punct("{"), Str("env"), Punct(":"), Punct("null"), Punct("}")>>,
      <<Punct("null")>>,
      <<Punct("{"), Str("n"), Punct(":"), Num("1"), Punct("}")>>,
      <<Punct("{"), Str("env"), Punct(":"), Str("prod"), Punct(","),
        Str("n"), Punct(":"), Num("1"), Punct("}")>>,
      <<Punct("{"), Str("hosts"), Punct(":"), Punct("["), Str("a"), Punct("]"),
        Punct("}")>>,
      <<Punct("{"), Str("env"), Punct(":"), Str("prod")>>,
      <<Punct("{"), Str("env"), Punct(":"), Str("prod"), Punct(","), Punct("}")>>,
      <<Punct("["), Str("env"), Punct("]")>>,
      <<Str("env=prod")>>,
      <<Punct("bad")>> }
ExtraVarsArgs == {Absent} \cup {Arg(ts) : ts \in ExtraVarsTexts}
TemplateArgs == {AbsentWord, Arg(""), Arg("deploy")}

\* the scanner of encoding/json over one value that starts at token i: the
\* index after the value, 0 on a syntax error
RECURSIVE SkipValue(_, _)
RECURSIVE SkipRest(_, _, _)
SkipValue(ts, i) ==
    IF i > Len(ts) THEN 0
    ELSE IF ts[i].kind \in JSONScalars THEN i + 1
    ELSE IF ts[i].kind = "[" THEN
            IF i + 1 <= Len(ts) /\ ts[i + 1].kind = "]" THEN i + 2
            ELSE SkipRest(ts, i + 1, "]")
    ELSE IF ts[i].kind = "{" THEN
            IF i + 1 <= Len(ts) /\ ts[i + 1].kind = "}" THEN i + 2
            ELSE SkipRest(ts, i + 1, "}")
    ELSE 0
\* the elements (members) of an array (object) from token i to its close
SkipRest(ts, i, close) ==
    LET v == IF close = "]" THEN SkipValue(ts, i)
             ELSE IF i + 1 <= Len(ts) /\ ts[i].kind = "str" /\ ts[i + 1].kind = ":"
             THEN SkipValue(ts, i + 2)
             ELSE 0
    IN IF v = 0 \/ v > Len(ts) THEN 0
       ELSE IF ts[v].kind = close THEN v + 1
       ELSE IF ts[v].kind = "," THEN SkipRest(ts, v + 1, close)
       ELSE 0

\* json's checkValid: the text is one JSON value
checkValid(ts) == SkipValue(ts, 1) = Len(ts) + 1

\* m[k] = v on a map[string]string kept as a set of entries
MapSet(m, k, v) == {e \in m : e.key # k} \cup {[key |-> k, value |-> v]}

\* the decoder over the members of the top-level object, from the key at
\* token i: a string sets the entry, null sets it to "", any other value
\* is a type error and decoding goes on
RECURSIVE DecodeMembers(_, _, _)
DecodeMembers(ts, i, r) ==
    LET val == ts[i + 2]
        v == SkipValue(ts, i + 2)
        r2 == IF val.kind = "str"
              THEN [r EXCEPT !.map = MapSet(@, ts[i].text, val.text)]
              ELSE IF val.kind = "null"
              THEN [r EXCEPT !.map = MapSet(@, ts[i].text, "")]
              ELSE [r EXCEPT !.typed = FALSE]
    IN IF ts[v].kind = "," THEN DecodeMembers(ts, v + 1, r2) ELSE r2

\* json.Unmarshal([]byte(extraVarsStr), &extraVars) into an empty
\* map[string]string: [ok, err, map], map being extraVars afterwards
Unmarshal(ts) ==
    IF ~checkValid(ts) THEN [ok |-> FALSE, err |-> "SyntaxError", map |-> {}]
    ELSE IF ts[1].kind = "null" THEN [ok |-> TRUE, err |-> NoErr, map |-> {}]
    ELSE IF ts[1].kind # "{"
    THEN [ok |-> FALSE, err |-> "UnmarshalTypeError", map |-> {}]
    ELSE IF ts[2].kind = "}" THEN [ok |-> TRUE, err |-> NoErr, map |-> {}]
    ELSE LET r == DecodeMembers(ts, 2, [map |-> {}, typed |-> TRUE])
         IN [ok |-> r.typed,
             err |-> IF r.typed THEN NoErr ELSE "UnmarshalTypeError",
             map |-> r.map]

\* a handler that keeps what the decoder stored before it failed
ParsedExtraVars_partial(parsed) == parsed.map

\* args.ExtraVars after the handler's `if err := json.Unmarshal(...)`: the
\* map on success, the zero value after a logged failure
ParsedExtraVars(parsed) == IF parsed.ok THEN parsed.map ELSE {}

\* prepareLaunchRequest: extra_vars is in the body when there are any
prepareLaunchRequest(options) ==
    [has_extra_vars |-> options.ExtraVars # {}, extra_vars |-> options.ExtraVars]

\* AutomationService.LaunchJob as the handler sees it: [err, posted]
LaunchJobResult(args, outcome) ==
    IF args.JobTemplate = "" THEN [err |-> "job_template is required", posted |-> <<>>]
    ELSE LET options == [TemplateNameOrID |-> args.JobTemplate,
                         ExtraVars |-> args.ExtraVars]
         IN [err |-> IF outcome = "ok" THEN NoErr ELSE "failed to launch AWX job",
             posted |-> <<prepareLaunchRequest(options)>>]

\* AutomationHandler.LaunchAWXJob
LaunchAWXJob(jobTemplate, extraVars, outcome) ==
    LET extraVarsStr == GetString(extraVars, <<>>)
        args == [JobTemplate |-> jobTemplate.text,
                 ExtraVars |-> IF extraVarsStr # <<>>
                               THEN ParsedExtraVars(Unmarshal(extraVarsStr))
                               ELSE {}]
    IN IF ~RequireString(jobTemplate).ok THEN ToolError("job_template is required")
       ELSE ToolAfter(LaunchJobResult(args, outcome), "Failed to launch AWX job", args)

NoTool == [tool |-> "", raw |-> NoPassed, result |-> ToolError("")]

\* one check_awx_job_status tool call
CheckAWXJobStatusCall(jobID, outcome) ==
    /\ toolOut' = [tool |-> "check_awx_job_status", raw |-> [job_id |-> jobID],
                   result |-> CheckAWXJobStatus(jobID, outcome)]
    /\ UNCHANGED <<now, advances, cacheVars, clientVars, launchVars, authVars,
                   resolveVars, pollVars, svcVars, scaleOut, healthOut, statsOut>>

\* one autoscale_autosphere tool call
AutoscaleAutosphereCall(action, service, replicas, threshold) ==
    /\ toolOut' = [tool |-> "autoscale_autosphere",
                   raw |-> [action |-> action, replicas |-> replicas],
                   result |-> AutoscaleAutosphere(action, service, replicas,
                                                  threshold, now)]
    /\ UNCHANGED <<now, advances, cacheVars, clientVars, launchVars, authVars,
                   resolveVars, pollVars, svcVars, scaleOut, healthOut, statsOut>>

\* one launch_awx_job tool call
LaunchAWXJobCall(jobTemplate, extraVars, outcome) ==
    /\ toolOut' = [tool |-> "launch_awx_job",
                   raw |-> [job_template |-> jobTemplate, extra_vars |-> extraVars],
                   result |-> LaunchAWXJob(jobTemplate, extraVars, outcome)]
    /\ UNCHANGED <<now, advances, cacheVars, clientVars, launchVars, authVars,
                   resolveVars, pollVars, svcVars, scaleOut, healthOut, statsOut>>

\* one create_job_template tool call
CreateJobTemplateCall(name, inventory, project, playbook, verbosity, outcome) ==
    /\ toolOut' = [tool |-> "create_job_template",
                   raw |-> [name |-> name, inventory |-> inventory,
                            project |-> project, playbook |-> playbook,
                            verbosity |-> verbosity],
                   result |-> CreateJobTemplate(name, inventory, project, playbook,
                                                verbosity, outcome)]
    /\ UNCHANGED <<now, advances, cacheVars, clientVars, launchVars, authVars,
                   resolveVars, pollVars, svcVars, scaleOut, healthOut, statsOut>>

FacadeIdle == scaleOut = NoScale /\ healthOut = NoHealth /\ toolOut = NoTool
              /\ statsOut = NoStats

\* the services outside the AWX client, at rest
SvcIdle == PromIdle /\ FacadeIdle

RestIdle ==
    AuthIdle(TokenConfig) /\ ResolveIdle /\ rlist = <<>> /\ PollIdle /\ SvcIdle

(***************************************************************************)
(* Properties                                                              *)
(***************************************************************************)
C1_Needles ==
    { <<"4", "0", "3">>, <<"insufficient permissions">>, <<"4", "0", "0">>,
      <<"not found">>, <<"4", "0", "1">>, <<"authentication">> }
C1_NonRetryableText(e) == \E n \in C1_Needles : Contains(e, n)
C1_WrappedLast ==
    <<"failed to launch job for template ">> \o Itoa(ltpl.ID)
        \o <<": ", "all launch attempts failed, last error: ">> \o lastErr

\* C1: a Launch call issues at most 3 launch POST attempts; after an attempt
\* whose error text contains "403", "insufficient permissions", "400",
\* "not found", "401" or "authentication" no further attempt of that call is
\* issued, and the call returns that last error (wrapped by Launch).
C1_RetryBound ==
    /\ [](attempts <= 3)
    /\ [][(attempts' = attempts + 1 /\ attempts >= 1)
            => ~C1_NonRetryableText(lastErr)]_vars
    /\ []((attempts >= 1 /\ C1_NonRetryableText(lastErr))
            => (lpc = "done" /\ ~lres.ok /\ lres.err = C1_WrappedLast))

\* a call that made two attempts and stopped on a 401 answer
C1_Witness ==
    /\ lpc = "done" /\ attempts = 2 /\ ~lres.ok
    /\ lastOutcome.kind = "status" /\ lastOutcome.status = 401
    /\ Contains(lres.err, <<"4", "0", "1">>)

C2_RetryableKind(o) ==
    \/ o.kind = "transport"
    \/ o.kind = "status" /\ o.status >= 500
    \/ o.kind = "status" /\ o.status < 400 /\ ~o.json

C2_Step ==
    /\ (lpc = "attempt" /\ attempts' = attempts + 1 /\ attempts' < 3
            /\ C2_RetryableKind(lastOutcome'))
        => lpc' = "sleep"
    /\ (lpc = "sleep" /\ lpc' # "sleep")
        => (lpc' = "attempt" /\ now' = now + 2 /\ delays' = delays + 1)
    /\ delays' > delays => lpc = "sleep"
    /\ attempts' = attempts + 1 => delays = attempts
    /\ (lpc = "attempt" /\ attempts' = attempts + 1 /\ lastOutcome'.kind = "status"
            /\ lastOutcome'.status < 400 /\ lastOutcome'.json)
        => (lpc' = "done" /\ lres'.ok)

\* C2: a launch attempt that fails with a transport error, a 5xx status or a
\* response-decode error is retryable whatever the template id and base URL:
\* while fewer than 3 attempts have been made it is followed by a 2 s delay and
\* another attempt; delays occur only between attempts (attempt k follows k-1
\* delays); Launch succeeds as soon as an attempt succeeds.
C2_RetryableRetried == [][C2_Step]_vars

\* C3 as stated: a probe answered with 403 or any other non-2xx status ends
\* Launch with an error and zero launch POST attempts.
C3_ProbeNon2xxStops ==
    (lprobe.kind = "status" /\ (lprobe.status < 200 \/ lprobe.status >= 300))
        => (lpc = "done" /\ ~lres.ok /\ attempts = 0)

\* C3: a probe that fails in transport or is answered with 403 or any other
\* status >= 400 ends Launch with an error, without a second probe and with
\* zero launch POST attempts; the 403 error names insufficient permissions.
C3_ProbeErrorStops ==
    /\ (lprobe.kind = "transport" \/ (lprobe.kind = "status" /\ lprobe.status >= 400))
        => (lpc = "done" /\ ~lres.ok /\ lres.err # <<>> /\ attempts = 0 /\ probes = 1)
    /\ (lprobe.kind = "status" /\ lprobe.status = 403)
        => Contains(lres.err, <<"insufficient permissions">>)

\* a Launch ended by a probe answered 500
C3_Witness ==
    /\ lpc = "done" /\ lprobe.kind = "status" /\ lprobe.status = 500
    /\ probes = 1 /\ ltpl.found

\* C4: when template resolution fails (the list fetch fails or no template
\* matches) Launch ends with the error at once: the list is requested at most
\* once, and no permission probe and no launch POST is made.
C4_ResolveFailureStops ==
    (ltpl.tried /\ ~ltpl.found)
        => /\ lpc = "done" /\ ~lres.ok /\ lres.err # <<>>
           /\ fetches <= 1 /\ probes = 0 /\ attempts = 0

\* a Launch of an unknown name ended after one list request
C4_Witness ==
    /\ lpc = "done" /\ ltpl.tried /\ ~ltpl.found /\ ~ltpl.fetchFailed
    /\ fetches = 1 /\ Contains(lres.err, <<"not found">>)

C5_GetJobStep(w) ==
    LET k == JobKey(wloc'[w].id)
        usable == k \in DOMAIN items /\ ~(now > items[k].expiration)
    IN  (wpc[w] = "idle" /\ wpc'[w] # "idle" /\ wloc'[w].op = "GetJob") =>
          /\ wloc'[w].cached =>
                /\ usable
                /\ items[k].value.Status \in {"successful", "failed", "canceled"}
                /\ wloc'[w].val = items[k].value
                /\ wpc'[w] = "done"
          /\ (usable /\ items[k].value.Status \notin {"successful", "failed", "canceled"})
                => wpc'[w] = "req"
          /\ (k \in DOMAIN items /\ now < items[k].expiration
                /\ items[k].value.Status = "successful") => wloc'[w].cached
          /\ ~wloc'[w].cached => wpc'[w] = "req"
\* C5: GetJob answers from the cache, with no backend request, only when an entry
\* for awx:job:<id> exists, is not past its expiry and holds a successful,
\* failed or canceled job, and then returns that job; for any other cached
\* state (running, ...) or no usable entry it goes to the backend; a cached
\* successful job is answered from the cache as long as its TTL has not elapsed.
C5_TerminalCaching ==
    /\ [][\A w \in Workers : C5_GetJobStep(w)]_vars
    /\ [](\A w \in Workers : wloc[w].cached => ~wloc[w].fetched)
    /\ [](\A w \in Workers : wpc[w] \in {"req", "resp"} => ~wloc[w].cached)

\* a second GetJob found the successful job cached and made no request
C5_Witness ==
    \E w \in Workers :
        /\ wpc[w] = "done" /\ wloc[w].op = "GetJob"
        /\ wloc[w].cached /\ ~wloc[w].fetched
        /\ wloc[w].val.Status = "successful"

\* C6: A successful GetJob fetch writes awx:job:<id> with TTL 10 s for running or
\* pending, with TTL 5 min for successful, failed, canceled or error, and gives
\* no non-terminal state the 5 min TTL.
C6_JobTTLByState ==
    [][\A w \in Workers :
         (wpc[w] = "resp" /\ wloc[w].op = "GetJob" /\ wloc[w].reply.kind = "ok"
            /\ wpc'[w] = "done")
         => LET k == JobKey(wloc[w].id)
                st == wloc[w].reply.data.Status
                ttl == items'[k].expiration - now
            IN /\ k \in DOMAIN items'
               /\ st \in {"running", "pending"} => ttl = 10
               /\ st \in Terminal => ttl = 300
               /\ st \notin Terminal => ttl # 300]_vars

\* C7: With invocations one after the other: the first GetJobTemplates that begins
\* after a CreateJobTemplate returned success does not answer from the cache,
\* it goes to the backend.
C7_CreateInvalidates ==
    \A w \in Workers :
        (wloc[w].op = "GetJobTemplates" /\ wloc[w].afterCreate)
            => (~wloc[w].cached /\ wpc[w] \in {"req", "resp", "done"}
                /\ (wpc[w] \in {"resp", "done"} => wloc[w].fetched))

\* a list was cached, a template was created, and the next listing fetched
\* the list that holds the new template
C7_Witness ==
    \E w \in Workers :
        /\ wpc[w] = "done" /\ wloc[w].op = "GetJobTemplates" /\ wloc[w].afterCreate
        /\ wloc[w].fetched /\ wloc[w].err = NoErr
        /\ stats.sets = 2
        /\ Len(wloc[w].val) = Len(InitTemplates) + 1

\* C8: With invocations one after the other: when a client operation returns an
\* error the cache holds exactly the entries (keys, values, expiries) it held
\* when the operation began.
C8_ErrorsKeepCache ==
    \A w \in Workers :
        (wpc[w] = "done" /\ wloc[w].err # NoErr) => items = wloc[w].before

\* a CreateJobTemplate failed while a template list was cached
C8_Witness ==
    \E w \in Workers :
        /\ wpc[w] = "done" /\ wloc[w].op = "CreateJobTemplate"
        /\ wloc[w].err # NoErr
        /\ TemplatesKey \in DOMAIN items

\* C9: A Get(k) reading the clock at s' while the entry written by the latest
\* Set(k, v, t) at s is in the map returns (v, present) if and only if
\* s' < s + t; from s + t on it reports absent.
C9_TTLHonored ==
    \A t \in Threads :
        (cpc[t] \in {"get_record", "get_return"} /\ cloc[t].key \in DOMAIN items)
            => /\ cloc[t].ok <=> cloc[t].at < items[cloc[t].key].expiration
               /\ cloc[t].ok => cloc[t].got = items[cloc[t].key].value

C10_Recorded == Cardinality({t \in Threads : cpc[t] = "get_return"})
\* C10: hits + misses counts the Gets that have recorded their outcome (so it
\* equals the number of completed Gets whenever none is between recording and
\* returning); each Get adds one to exactly one counter, a miss when the key
\* is absent or expired; no other step changes hits or misses.
C10_HitAccounting ==
    /\ [](stats.hits + stats.misses = getsDone + C10_Recorded)
    /\ [][(stats'.hits # stats.hits \/ stats'.misses # stats.misses) =>
            \E t \in Threads :
                /\ cpc[t] = "get_record" /\ cpc'[t] = "get_return"
                /\ LET absent == \/ cloc[t].key \notin DOMAIN items
                                 \/ cloc[t].at > items[cloc[t].key].expiration
                   IN IF absent
                      THEN stats'.misses = stats.misses + 1 /\ stats'.hits = stats.hits
                      ELSE stats'.hits = stats.hits + 1 /\ stats'.misses = stats.misses]_vars
    /\ [][\A t \in Threads :
            (cpc[t] = "get_record" /\ cpc'[t] = "get_return")
                => stats'.hits + stats'.misses = stats.hits + stats.misses + 1]_vars

\* one Get has returned and another has recorded: one hit and one miss
C10_Witness ==
    /\ getsDone = 1 /\ C10_Recorded = 1
    /\ stats.hits = 1 /\ stats.misses = 1

\* C11: every successful Launch returns a result whose state is "pending",
\* whatever the backend's launch response holds, and AutomationService.LaunchJob
\* hands that state on unchanged.
C11_LaunchPending ==
    (lpc = "done" /\ lres.ok)
        => (lres.Status = "pending" /\ AWXJobOutput(lres).Status = "pending")

\* a Launch succeeded on a response that reports the job as running
C11_Witness ==
    /\ lpc = "done" /\ lres.ok /\ attempts >= 1
    /\ lastOutcome.state = "running" /\ AWXJobOutput(lres).ok

\* C12: every successful Launch returns job_id equal to the "job" member of
\* the backend's launch response and url equal to
\* <baseURL>/#/jobs/playbook/<job_id>.
C12_ResultIdAndURL ==
    (lpc = "done" /\ lres.ok)
        => /\ lres.JobID = lastOutcome.job
           /\ lres.URL = baseURL \o <<"/#/jobs/playbook/">> \o Itoa(lres.JobID)
           /\ AWXJobOutput(lres).JobID = lres.JobID
           /\ AWXJobOutput(lres).URL = lres.URL

C13_UniqueName(ts, i) == \A j \in 1..Len(ts) : ts[j].Name = ts[i].Name => j = i
C13_Same(r, t) == r.found /\ r.ID = t.ID /\ r.Name = t.Name
C13_Stable(res, ts, i) ==
    LET byName == ts[i].Name
        byID == Itoa(ts[i].ID)
    IN (byName \in DOMAIN res /\ byID \in DOMAIN res)
          => (C13_Same(res[byName], ts[i]) /\ C13_Same(res[byID], ts[i]))
\* no template's name reads (strconv.Atoi) as the id of a different template
C13_NoNumericClash(ts) ==
    \A i, j \in 1..Len(ts) :
        (i # j /\ Atoi(ts[i].Name).ok) => Atoi(ts[i].Name).val # ts[j].ID

\* C13 as stated: for every template list and every template T in it with a
\* unique name, resolving T.name and resolving the decimal string of T.id both
\* return T (for either lookup).
C13_LookupStable ==
    \A i \in 1..Len(rlist) :
        C13_UniqueName(rlist, i)
            => (C13_Stable(rl, rlist, i) /\ C13_Stable(rc, rlist, i))

\* C13: for every template list in which no template's name reads as the id
\* of a different template, and every template T in it with a unique name,
\* resolving T.name and resolving the decimal string of T.id both return T,
\* with resolveTemplate and with GetJobTemplateByName.
C13_LookupStableUnambiguous ==
    C13_NoNumericClash(rlist) =>
        \A i \in 1..Len(rlist) :
            C13_UniqueName(rlist, i)
                => (C13_Stable(rl, rlist, i) /\ C13_Stable(rc, rlist, i))

\* both lookups have resolved "backup" and "8" in a list without clashes
C13_Witness ==
    /\ C13_NoNumericClash(rlist) /\ Len(rlist) = 2
    /\ \E i \in 1..Len(rlist) :
         /\ rlist[i].ID = 8 /\ C13_UniqueName(rlist, i)
         /\ DOMAIN rl = {rlist[i].Name, <<"8">>}
         /\ DOMAIN rc = {rlist[i].Name, <<"8">>}
         /\ rl[<<"8">>].Name = <<"backup">>

C14_SameChoice(a, b) == a.found = b.found /\ a.ID = b.ID /\ a.Name = b.Name

\* C14: the launcher's resolution and GetJobTemplateByName are the same
\* function: for every template list and identifier an exact name match takes
\* precedence over a numeric-id match, and both select the same template or
\* both fail.
C14_SameResolution ==
    /\ \A n \in DOMAIN rl \cap DOMAIN rc : C14_SameChoice(rl[n], rc[n])
    /\ \A n \in DOMAIN rl :
          (\E i \in 1..Len(rlist) : rlist[i].Name = n)
              => (rl[n].found /\ rl[n].Name = n)

C15_Header == <<"template ", "not found", ". Available templates: ">>
\* the first n entries of the enumeration, each written by entry(t)
RECURSIVE C15_Listed(_, _, _)
C15_Listed(ts, n, quote) ==
    IF n = 0 THEN <<>>
    ELSE C15_Listed(ts, n - 1, quote) \o (IF n > 1 THEN <<", ">> ELSE <<>>)
         \o quote \o ts[n].Name \o quote \o <<" (ID: ">> \o Itoa(ts[n].ID) \o <<")">>

\* C15 as stated: when no template matches, the launch path's error contains
\* "not found" and lists every template of the list once, in list order, as
\* "<name> (ID: <id>)" separated by commas.
C15_ErrorEnumerates ==
    \A n \in DOMAIN rl :
        ~rl[n].found
            => /\ Contains(rl[n].err, <<"not found">>)
               /\ rl[n].err = C15_Header \o C15_Listed(rlist, Len(rlist), <<>>)

\* C15: when no template matches, the launch path's error contains
\* "not found" and lists every template of the list once, in list order, as
\* "'<name>' (ID: <id>)" (the name in single quotes) separated by ", ".
C15_ErrorEnumeratesQuoted ==
    \A n \in DOMAIN rl :
        ~rl[n].found
            => /\ Contains(rl[n].err, <<"not found">>)
               /\ rl[n].err = C15_Header \o C15_Listed(rlist, Len(rlist), <<"'">>)

\* "nope" was not found in a list of three templates
C15_Witness ==
    /\ Len(rlist) = 3 /\ <<"nope">> \in DOMAIN rl /\ ~rl[<<"nope">>].found
    /\ Contains(rl[<<"nope">>].err, <<"'", "backup", "'", " (ID: ", "3", ")">>)

C16_Rank(st) ==
    CASE st = "pending" -> 1
      [] st = "waiting" -> 2
      [] st = "running" -> 3
      [] OTHER -> 4
C16_TerminalStates == {"successful", "failed", "canceled", "error"}

\* C16: with the backend moving a job only forward along its lifecycle, in
\* any sequence of status polls made one after the other no poll of a job
\* reports an earlier lifecycle state than the poll before it, and after a
\* poll has reported a terminal state every later poll reports that state.
C16_PollsMonotone ==
    [][\A id \in JobIDs :
         (reported[id] # None /\ reported'[id] # reported[id])
            => /\ reported[id] \notin C16_TerminalStates
               /\ C16_Rank(reported'[id]) >= C16_Rank(reported[id])]_vars

\* the third poll was answered from the cache with the terminal state that
\* an earlier poll had reported
C16_Witness ==
    \E w \in Workers :
        /\ wpc[w] = "done" /\ wloc[w].op = "GetJob" /\ wloc[w].cached
        /\ ops = 3 /\ wloc[w].val.Status = "failed"
        /\ reported[wloc[w].id] = "failed"

C17_Lists == {"GetJobTemplates", "GetInventories", "GetProjects"}
C17_Key(op) ==
    CASE op = "GetJobTemplates" -> <<"awx:job_templates">>
      [] op = "GetInventories" -> <<"awx:inventories">>
      [] op = "GetProjects" -> <<"awx:projects">>
C17_TTL(op) ==
    CASE op = "GetJobTemplates" -> 300
      [] op = "GetInventories" -> 300
      [] op = "GetProjects" -> 600
C17_Step(w) ==
    /\ (wpc[w] = "idle" /\ wpc'[w] # "idle" /\ wloc'[w].op \in C17_Lists)
        => LET k == C17_Key(wloc'[w].op)
           IN /\ (k \in DOMAIN items /\ now < items[k].expiration)
                    => /\ wpc'[w] = "done" /\ wloc'[w].cached /\ ~wloc'[w].fetched
                       /\ wloc'[w].val = items[k].value
              /\ (k \notin DOMAIN items \/ now > items[k].expiration)
                    => (wpc'[w] = "req" /\ ~wloc'[w].cached)
    /\ (wpc[w] = "resp" /\ wloc[w].op \in C17_Lists /\ wloc[w].reply.kind = "ok"
            /\ wpc'[w] = "done")
        => LET k == C17_Key(wloc[w].op)
           IN /\ k \in DOMAIN items'
              /\ items'[k].value = wloc[w].reply.data
              /\ items'[k].expiration = now + C17_TTL(wloc[w].op)

\* C17: a successful GetJobTemplates, GetInventories or GetProjects fetch
\* stores the list for 5 min, 5 min and 10 min; while the stored list is in
\* the cache (not invalidated, not cleared) and its TTL has not elapsed, a call
\* of the same operation returns it with no backend request; once the TTL has
\* elapsed the call goes to the backend.
C17_ListCaching ==
    /\ [][\A w \in Workers : C17_Step(w)]_vars
    /\ [](\A w \in Workers :
            (wloc[w].op \in C17_Lists /\ wloc[w].cached) => ~wloc[w].fetched)

\* GetProjects answered from the cache 301 s after the fetch, 5 min past
C17_Witness ==
    \E w \in Workers :
        /\ wpc[w] = "done" /\ wloc[w].op = "GetProjects" /\ wloc[w].cached
        /\ now >= 301 /\ wloc[w].val = SrvProjects

C18_Order ==
    <<"GET /api/v2/job_templates/", "POST /api/v2/tokens/", "POST /api/v2/authtoken/">>
C18_Succeeded(l, i) ==
    l.outs[i] = "ok" \/ (i = 3 /\ l.outs[i] = "notoken")
C18_Thread(a) ==
    LET l == aloc[a]
        n == Len(l.log)
    IN /\ n <= 3 /\ Len(l.outs) = n /\ l.log = SubSeq(C18_Order, 1, n)
       /\ \A i \in 1..(n - 1) : ~C18_Succeeded(l, i)
       /\ (apc[a] = "idle" /\ n = 0) \/ apc[a] = "done"
            \/ (apc[a] = "basic" /\ n = 0) \/ (apc[a] = "tokens" /\ n = 1)
            \/ (apc[a] = "legacy" /\ n = 2) \/ (apc[a] = "store" /\ n \in {2, 3})
       /\ (apc[a] \in {"tokens", "legacy"}) => ~C18_Succeeded(l, n)
       /\ apc[a] = "store" => C18_Succeeded(l, n)
       /\ (apc[a] = "done" /\ l.ok /\ n > 0) => C18_Succeeded(l, n)
       /\ (apc[a] = "done" /\ ~l.ok /\ n > 0)
            => /\ n = 3 /\ ~C18_Succeeded(l, 3)
               /\ l.err = <<"authentication", " failed with status ", "4", "0", "1", ": ">>
       /\ l.saw => (n = 0 /\ l.ok /\ apc[a] = "done")
       /\ (apc[a] = "done" /\ n = 0 /\ ~l.saw)
            => /\ ~l.ok /\ (username = "" \/ password = "")
               /\ l.err = <<"either token or username/password must be provided">>
       /\ (token.len = "" /\ username = "" /\ apc[a] = "done") => (n = 0 /\ ~l.ok)

\* C18: authenticate uses a configured token without any request; without a
\* token and without username/password it fails without any request;
\* otherwise it contacts the Basic-Auth probe, POST /api/v2/tokens/ and
\* POST /api/v2/authtoken/ in that order, goes on to the next only after a
\* failure, stops at the first success and, when all three fail, returns the
\* last one's error.
C18_StrategyOrder == \A a \in AuthThreads : C18_Thread(a)

\* the probe was refused and the token endpoint issued the token now stored
C18_Witness ==
    \E a \in AuthThreads :
        /\ apc[a] = "done" /\ aloc[a].ok /\ aloc[a].stored
        /\ aloc[a].outs = <<"refused", "ok">>
        /\ token = TokenOf(Issued(a))

\* C19: over any sequence of client operations the client issues
\* authentication requests before the first authenticated call only, and at
\* most once: later operations issue none.
C19_AuthAtMostOnce == authProbes <= 1

C21_Requested(id) == [JobID |-> id, Status |-> "cancel_requested"]
C21_Finished(w) == wpc[w] = "done" /\ wloc[w].op = "CancelJob"

\* C21 as stated: every CancelJob call, whatever the job id and whatever the
\* backend answered, reports status cancel_requested.
C21_AlwaysCancelRequested ==
    \A w \in Workers :
        C21_Finished(w) => (wloc[w].err = NoErr /\ wloc[w].val = C21_Requested(wloc[w].id))

\* C21: every CancelJob call with a positive job id that the backend did not
\* answer with a transport error or a status >= 400 reports cancel_requested,
\* never canceled, whatever the job's state and the response body, so all the
\* outputs of repeated calls for one job are equal; any other call returns an
\* error and no status.
C21_CancelRequestedOnSuccess ==
    /\ \A w \in Workers :
          C21_Finished(w) =>
             IF wloc[w].err = NoErr
             THEN wloc[w].id > 0 /\ wloc[w].val = C21_Requested(wloc[w].id)
             ELSE /\ wloc[w].val = NoValue
                  /\ \/ wloc[w].id <= 0 /\ wloc[w].err = "valid job_id is required"
                     \/ wloc[w].id > 0 /\ wloc[w].err = "backend"
    /\ \A id \in JobIDs : \A i \in 1..Len(cancelOut[id]) :
          cancelOut[id][i] = C21_Requested(id)

\* a second accepted cancellation of a job the backend has already canceled
C21_Witness ==
    \E w \in Workers :
        /\ C21_Finished(w) /\ wloc[w].err = NoErr
        /\ srvJob[wloc[w].id] = "canceled"
        /\ Len(cancelOut[wloc[w].id]) >= 2

C22_Canceled(o) == o.kind = "transport" /\ o.cause = <<"context canceled">>

\* C22: a launch POST is never ended by the caller's cancellation, also when
\* the ctx is cancelled while it is in flight: an attempt ends by a
\* response, a transport error or the per-attempt timeout; a template fetch
\* or a permission probe whose ctx is cancelled ends with the cancellation
\* error and Launch fails.
C22_LaunchShielded ==
    [][ /\ (attempts' = attempts + 1) =>
              /\ ~C22_Canceled(lastOutcome')
              /\ \/ lastOutcome'.kind = "status"
                 \/ lastOutcome'.kind = "read"
                 \/ lastOutcome'.kind = "transport"
        /\ (probes' = probes + 1 /\ lctx.done) =>
              /\ C22_Canceled(lprobe')
              /\ lpc' = "done" /\ ~lres'.ok /\ lres'.stage = "probe"
              /\ Contains(lres'.err, <<"context canceled">>)
        /\ (fetches' = fetches + 1 /\ lctx.done) =>
              /\ lpc' = "done" /\ ~lres'.ok /\ lres'.stage = "resolve"
              /\ Contains(lres'.err, <<"context canceled">>) ]_vars

\* the ctx was cancelled while the POST was in flight and the launch succeeded
C22_Witness ==
    /\ lctx.done /\ lctx.at = "attempt"
    /\ lpc = "done" /\ lres.ok /\ attempts = 1

C23_Starts(op) == ppc = "idle" /\ ppc' # "idle" /\ ploc'.op = op
C23_Ends(op) == ppc = "resp" /\ ppc' = "done" /\ ploc.op = op

\* C23: an instant Query for a query string fetched successfully less than
\* 30 s ago returns that fetch's response without a backend request; a failed
\* instant query leaves the cache as it was; a QueryRange always goes to the
\* backend, and neither its start nor its end reads or writes the cache.
C23_QueryCaching ==
    [][ /\ C23_Starts("Query") =>
              LET last == plast[ploc'.query]
              IN (last.ok /\ now - last.at < 30) =>
                    /\ ppc' = "done" /\ ploc'.err = NoErr
                    /\ ploc'.val = last.resp
                    /\ promRequests' = promRequests
        /\ (C23_Ends("Query") /\ ploc'.err # NoErr) =>
              (promItems' = promItems /\ ploc'.val = NoValue)
        /\ C23_Starts("QueryRange") =>
              (ppc' = "req" /\ promItems' = promItems /\ promStats' = promStats)
        /\ (ppc = "req" /\ ppc' # "req") =>
              (ppc' = "resp" /\ promRequests' = promRequests + 1)
        /\ C23_Ends("QueryRange") =>
              /\ promItems' = promItems /\ promStats' = promStats
              /\ ploc'.err = NoErr => ploc'.val = ploc.reply.data ]_vars

\* a repeated instant query, 20 s after the fetch, answered from the cache
\* with the response the fetch had returned
C23_Witness ==
    /\ ppc = "done" /\ ploc.op = "Query" /\ ploc.cached
    /\ plast[ploc.query].ok /\ now - plast[ploc.query].at = 20
    /\ ploc.val = plast[ploc.query].resp
    /\ promRequests = 1

\* C24: an Autoscale scale_up with replicas = 0 returns new_replicas =
\* baseline + 2; a scale_down never returns new_replicas below 1, whatever the
\* replicas argument; and the scale-down step from a count of 1 gives 1.
C24_ScaleBounds ==
    /\ (scaleOut.called /\ scaleOut.err = NoErr) =>
          /\ (scaleOut.args.Action = "scale_up" /\ scaleOut.args.Replicas = 0) =>
                /\ scaleOut.out.OldReplicas = 3
                /\ scaleOut.out.NewReplicas = scaleOut.out.OldReplicas + 2
          /\ scaleOut.args.Action = "scale_down" => scaleOut.out.NewReplicas >= 1
    /\ (scaleOut.called /\ scaleOut.args.Action \in {"scale_up", "scale_down"})
          => scaleOut.err = NoErr
    /\ \A old \in 1..5 : ScaleDownFrom(old) >= 1 /\ ScaleDownFrom(old) <= old
    /\ ScaleDownFrom(1) = 1

\* a scale_down with a negative replicas argument came back with 2 replicas
C24_Witness ==
    /\ scaleOut.called /\ scaleOut.err = NoErr
    /\ scaleOut.args.Action = "scale_down" /\ scaleOut.args.Replicas < 0
    /\ scaleOut.out.NewReplicas = 2

C25_Six == {"api", "database", "cache", "web", "workers", "monitoring"}
C25_Expected(sts) ==
    IF "critical" \in sts THEN "critical"
    ELSE IF "warning" \in sts THEN "warning" ELSE "healthy"

\* C25: CheckHealth checks exactly the six components api, database, cache,
\* web, workers, monitoring when component is empty or "all" and exactly the
\* named component otherwise; its overall status is critical if a checked
\* component is critical, else warning if one is warning, else healthy, also
\* when a checked component is unknown; and the roll-up gives that result
\* for every combination of three component statuses.
C25_Rollup ==
    /\ healthOut.called =>
          LET out == healthOut.out
              checked == DOMAIN out.Components
          IN /\ checked = IF healthOut.args.Component \in {"", "all"}
                          THEN C25_Six ELSE {healthOut.args.Component}
             /\ out.OverallStatus =
                   C25_Expected({out.Components[c].Status : c \in checked})
    /\ \A f \in [1..3 -> {"healthy", "warning", "critical", "unknown"}] :
          OverallStatus(f) = C25_Expected({f[i] : i \in 1..3})

\* a check of a component the service does not know came back healthy
C25_Witness ==
    /\ healthOut.called /\ healthOut.args.Component = "queue"
    /\ healthOut.out.Components["queue"].Status = "unknown"
    /\ healthOut.out.OverallStatus = "healthy"

C26_Verbosity == Atoi(toolOut.raw.verbosity.text)

\* C26: a create_job_template call whose verbosity is an integer outside
\* 0..5 ends in a tool-result error; when the call got as far as the façade
\* the error is a ValidationError; no template-creation request was sent to
\* the backend.
C26_VerbosityRejected ==
    (/\ toolOut.tool = "create_job_template"
     /\ toolOut.raw.verbosity.set
     /\ C26_Verbosity.ok
     /\ C26_Verbosity.val \notin 0..5)
    => /\ toolOut.result.isError
       /\ toolOut.result.posted = <<>>
       /\ toolOut.result.invoked => toolOut.result.cause = "ValidationError"

\* a call with every required argument valid and verbosity 7 was rejected by
\* the façade
C26_Witness ==
    /\ toolOut.tool = "create_job_template"
    /\ toolOut.raw.verbosity = Arg(<<"7">>)
    /\ toolOut.result.invoked
    /\ toolOut.result.passed.Verbosity = 7
    /\ toolOut.result.cause = "ValidationError"
    /\ toolOut.result.posted = <<>>

\* the tool call named an integer argument with a string that is no integer
C27_Malformed ==
    \/ /\ toolOut.tool = "check_awx_job_status"
       /\ toolOut.raw.job_id.set
       /\ ~Atoi(toolOut.raw.job_id.text).ok
    \/ /\ toolOut.tool = "autoscale_autosphere"
       /\ toolOut.raw.replicas.set
       /\ ~Atoi(toolOut.raw.replicas.text).ok
    \/ /\ toolOut.tool = "create_job_template"
       /\ toolOut.raw.verbosity.set
       /\ ~Atoi(toolOut.raw.verbosity.text).ok

\* C27: when job_id, replicas or verbosity is given and is not a valid
\* integer, the tool call returns a tool-result error and the façade
\* operation is not invoked.
C27_MalformedIntegerRejected ==
    C27_Malformed => toolOut.result.isError /\ ~toolOut.result.invoked

\* the statistics at the two ends of the operation that is between its
\* statistics updates, if there is one; else the statistics as they are
C28_Before ==
    IF \E t \in Threads : cpc[t] = "set_size"
    THEN [stats EXCEPT !.sets = @ - 1]
    ELSE IF spc = "sweep_size" /\ sweepN > 0
    THEN [stats EXCEPT !.evictions = @ - sweepN]
    ELSE stats
C28_After ==
    IF (\E t \in Threads : cpc[t] = "set_size") \/ (spc = "sweep_size" /\ sweepN > 0)
    THEN updateSize(stats, Cardinality(DOMAIN items))
    ELSE stats

\* C28: the snapshot a GetStats call returns equals the statistics before or
\* after the operation running at that moment, never the statistics half-way
\* through it (a Set's sets increment without its size update, a sweep's
\* evictions increment without its size decrease).
C28_SnapshotAtomic ==
    [][statsOut'.n # statsOut.n
       => statsOut'.snap \in {snapshot(C28_Before), snapshot(C28_After)}]_vars

\* the entries of the cache whose expiry is past
C30_Past == {k \in DOMAIN items : now > items[k].expiration}
\* a step in which the sweeper deletes, a step in which it counts
C30_Deletes == spc = "wait" /\ spc' = "sweep_record"
C30_Counts == spc = "sweep_record" /\ spc' = "sweep_size"

\* C30: a sweep removes exactly the entries whose expiry is past when it
\* runs, leaves every other entry as it was, and adds the number of entries
\* it removed to evictions; no other step (of Set, Delete, Clear, Get, Close
\* or the clock) changes evictions, and none but Set, Delete, Clear and the
\* sweep changes the entries.
C30_SweepFrame ==
    [][/\ C30_Deletes
          => /\ DOMAIN items' = DOMAIN items \ C30_Past
             /\ \A k \in DOMAIN items' : items'[k] = items[k]
             /\ sweepN' = Cardinality(C30_Past)
       /\ C30_Counts => stats'.evictions = stats.evictions + sweepN
       /\ ~C30_Counts => stats'.evictions = stats.evictions
       /\ (\A t \in Threads : cmu'.writer # t) /\ ~C30_Deletes => items' = items]_vars

\* a sweep has removed one expired entry and kept an unexpired one, after a
\* Get of the expired key missed
C30_Witness ==
    /\ spc = "sweep_size"
    /\ sweepN = 1
    /\ stats.evictions = 1
    /\ stats.misses = 1
    /\ DOMAIN items # {}
    /\ \A k \in DOMAIN items : ~(now > items[k].expiration)

\* a Get call that has not returned yet
C29_InGet(t) == cpc[t] \in {"get_wait", "get_record", "get_return"}

C31_SweepStarts == spc = "wait" /\ spc' = "sweep_record"
\* thread t starts a Get, a Set, a Delete in this step
C31_Gets(t) == cpc[t] = "idle" /\ cpc'[t] = "get_record"
C31_Sets(t) == cpc[t] = "idle" /\ cpc'[t] = "set_record"
C31_Deletes(t) == cpc[t] = "idle" /\ cpc'[t] = "del_size"

\* C31 as stated: Close never fails however often it is called (close(stopCh)
\* runs at most once), the sweeper starts no sweep once Close has been
\* called, and Get, Set and Delete keep working.
C31_NoSweepAfterClose ==
    [][/\ closes' <= 1
       /\ stopClosed => ~C31_SweepStarts]_vars

\* C31, amended: Close never fails however often it is called: close(stopCh)
\* runs exactly once, at the first Close.  The sweeper starts no sweep once
\* it has taken the stop signal; before that, a sweep whose tick is due can
\* still run after Close.  After Close, Get still returns the unexpired value
\* stored under its key, Set still stores its entry and Delete still removes
\* its key.
C31_CloseIdempotent ==
    [][/\ closes' <= 1 /\ closes' >= closes
       /\ ~running' => stopClosed' /\ closes' = 1
       /\ spc = "stopped" => spc' = "stopped"
       /\ C31_SweepStarts => now >= nextTick
       /\ stopClosed
          => \A t \in Threads :
               /\ C31_Gets(t)
                  => LET k == cloc'[t].key
                         live == k \in DOMAIN items /\ ~(now > items[k].expiration)
                     IN /\ cloc'[t].ok = live
                        /\ live => cloc'[t].got = items[k].value
               /\ C31_Sets(t)
                  => LET k == cloc'[t].key
                     IN /\ k \in DOMAIN items'
                        /\ items'[k] = [value |-> cloc'[t].value,
                                        expiration |-> now + cloc'[t].ttl]
               /\ C31_Deletes(t)
                  => /\ cloc'[t].key \notin DOMAIN items'
                     /\ DOMAIN items' = DOMAIN items \ {cloc'[t].key}]_vars

\* the stop signal was raised once, the sweeper has stopped, and a Get has
\* found an entry in the closed cache
C31_Witness ==
    /\ closes = 1 /\ ~running /\ stopClosed
    /\ spc = "stopped"
    /\ \E t \in Threads : cpc[t] = "get_record" /\ cloc[t].ok

\* the size gauge agrees with the map
C32_SizeAgrees == stats.currentSize = Cardinality(DOMAIN items)

\* C32: whenever no writer holds the cache lock, current-size equals the
\* number of entries in the map, expired ones included; Clear leaves it 0;
\* the statistics step of a Get and a Delete of an absent key leave it as it
\* was.
C32_SizeTracksMap ==
    [][/\ cmu.writer = None => C32_SizeAgrees
       /\ cmu'.writer = None => C32_SizeAgrees'
       /\ \A t \in Threads :
            /\ cpc[t] = "clear_size" /\ cpc'[t] = "idle" => stats'.currentSize = 0
            /\ cpc[t] = "get_record" /\ cpc'[t] = "get_return"
               => stats'.currentSize = stats.currentSize
            /\ cpc[t] = "del_size" /\ cpc'[t] = "idle" /\ ~cloc[t].ok
               => stats' = stats /\ items' = items]_vars

\* at rest the cache holds two entries, one of them expired and not yet
\* swept, and current-size is 2
C32_Witness ==
    /\ cmu = Unlocked
    /\ \A t \in Threads : cpc[t] = "idle"
    /\ spc = "wait"
    /\ Cardinality(DOMAIN items) = 2
    /\ stats.currentSize = 2
    /\ \E k \in DOMAIN items : now > items[k].expiration

\* the client operations that are waiting on an HTTP exchange or on the
\* launcher's retry delay
C33_Waiting ==
    {w \in Workers : wpc[w] \in {"req", "resp"}}
        \cup (IF lpc \in {"fetch", "probe", "attempt", "sleep"} THEN {"launcher"} ELSE {})

C34_NoListInFlight == \A w \in Workers : wloc[w].op # "GetJobTemplates"

\* C34: when a CreateJobTemplate has returned success and no GetJobTemplates
\* call is in flight, a list cached under awx:job_templates was fetched after
\* the creation: it holds the created template.
C34_NoStaleRepopulation ==
    \A wc \in Workers :
        (/\ wpc[wc] = "done"
         /\ wloc[wc].op = "CreateJobTemplate"
         /\ wloc[wc].err = NoErr
         /\ C34_NoListInFlight
         /\ TemplatesKey \in DOMAIN items)
        => \E i \in 1..Len(items[TemplatesKey].value) :
              items[TemplatesKey].value[i] = wloc[wc].val

\* the job states GetJob returns from the cache
C35_Final == {"successful", "failed", "canceled"}
\* the cache holds a job in such a state under awx:job:<id>
C35_HoldsFinal(its, id) ==
    JobKey(id) \in DOMAIN its /\ its[JobKey(id)].value.Status \in C35_Final
\* worker w writes the job it fetched to the cache in this step
C35_Writes(w) ==
    wpc[w] = "resp" /\ wloc[w].op = "GetJob" /\ wloc[w].reply.kind = "ok" /\ wpc'[w] = "done"

\* C35 as stated: once a job in a final state is cached under awx:job:<id>,
\* no GetJob replaces it by a job in a state that is not final.
C35_FinalNotOverwritten ==
    [][\A id \in JobIDs :
          C35_HoldsFinal(items, id) /\ JobKey(id) \in DOMAIN items'
          => C35_HoldsFinal(items', id)]_vars

\* C35, amended: cache writes are last-writer-wins: a GetJob that got an
\* answer from the backend stores the job it fetched under awx:job:<id>,
\* whatever is cached there, so a job fetched earlier in a non-final state can
\* replace a cached final one.  The non-final entry is never returned from
\* the cache: a GetJob answered from the cache returns a job in a final
\* state.
C35_LastWriterWins ==
    [][\A w \in Workers :
          /\ C35_Writes(w)
             => LET k == JobKey(wloc[w].id)
                IN /\ k \in DOMAIN items'
                   /\ items'[k].value.Status = wloc[w].reply.data.Status
                   /\ items'[k].value = wloc'[w].val
          /\ (wpc[w] = "idle" /\ wloc'[w].op = "GetJob" /\ wloc'[w].cached)
             => wloc'[w].val.Status \in C35_Final]_vars

\* a running job is cached although the backend has finished the job and a
\* GetJob has returned from the backend with the final state
C35_Witness ==
    /\ JobKey(1234) \in DOMAIN items
    /\ items[JobKey(1234)].value.Status = "running"
    /\ srvJob[1234] \in C35_Final
    /\ stats.sets = 2
    /\ \E w \in Workers : wpc[w] = "done" /\ wloc[w].op = "GetJob"
                          /\ wloc[w].val.Status = "running"

\* where executeLaunchWithRetry goes after an attempt, from the attempt's
\* result and its number alone
C36_AfterAttempt(o, e, n) ==
    IF o.kind = "status" /\ o.status < 400 /\ o.json THEN "done"
    ELSE IF isNonRetryableError(e) THEN "done"
    ELSE IF n < maxRetries THEN "sleep"
    ELSE "done"

\* C36: once Launch has passed the permission probe, the launch POSTs and
\* the 2 s delays are those the attempts' results ask for, whether or not
\* the caller's ctx is done: an attempt is never ended by the cancellation, a
\* failed retryable attempt before the third is followed by a full delay
\* and the delay by the next attempt, so there is one delay between two
\* attempts and none after the last.
C36_RetryIgnoresCancel ==
    [][/\ (lpc = "attempt" /\ lpc' # "attempt")
          => /\ attempts' = attempts + 1 /\ delays' = delays
             /\ lastOutcome' # CanceledOutcome
             /\ lpc' = C36_AfterAttempt(lastOutcome', lastErr', attempts')
             /\ delays' = attempts' - 1
       /\ (lpc = "sleep" /\ lpc' # "sleep")
          => /\ lpc' = "attempt"
             /\ delays' = delays + 1 /\ attempts' = attempts
             /\ now' = now + retryDelay
             /\ delays' = attempts']_vars

\* the caller cancelled during the first attempt, and the launcher still made
\* three attempts with two delays between them
C36_Witness ==
    /\ lctx.done /\ lctx.at = "attempt"
    /\ lpc = "done" /\ attempts = maxRetries /\ delays = maxRetries - 1
    /\ lastOutcome.kind = "status" /\ lastOutcome.status >= 500

\* C37: for every replicas argument, an Autoscale scale_down never returns
\* new_replicas greater than old_replicas and a scale_up never returns
\* new_replicas smaller than old_replicas.
C37_ScaleDirection ==
    (scaleOut.called /\ scaleOut.err = NoErr) =>
        /\ scaleOut.args.Action = "scale_down"
              => scaleOut.out.NewReplicas <= scaleOut.out.OldReplicas
        /\ scaleOut.args.Action = "scale_up"
              => scaleOut.out.NewReplicas >= scaleOut.out.OldReplicas

\* the extra_vars text of the last launch_awx_job call
C38_Text == toolOut.raw.extra_vars.text
\* a launch_awx_job call with a job_template and an extra_vars string that
\* json.Unmarshal does not decode into a map of strings
C38_Unparsable ==
    /\ toolOut.tool = "launch_awx_job"
    /\ toolOut.raw.job_template.set
    /\ toolOut.raw.extra_vars.set /\ C38_Text # <<>>
    /\ ~Unmarshal(C38_Text).ok
\* the text is an object whose members are all strings, with distinct keys
C38_StringObject(ts) ==
    /\ Len(ts) >= 5 /\ Len(ts) % 4 = 1
    /\ ts[1].kind = "{" /\ ts[Len(ts)].kind = "}"
    /\ \A j \in 0..((Len(ts) - 5) \div 4) :
          /\ ts[2 + 4 * j].kind = "str" /\ ts[3 + 4 * j].kind = ":"
          /\ ts[4 + 4 * j].kind = "str"
          /\ 5 + 4 * j < Len(ts) => ts[5 + 4 * j].kind = ","
    /\ \A i, j \in 0..((Len(ts) - 5) \div 4) :
          ts[2 + 4 * i].text = ts[2 + 4 * j].text => i = j

\* C38: a launch_awx_job call whose extra_vars string cannot be parsed as a
\* JSON object of string values is not rejected: the handler still calls the
\* façade's LaunchJob, with no extra variables, the launch request carries no
\* extra_vars, and the call fails only if LaunchJob does.  (An object of
\* strings is parsed, and its members are passed on.)
C38_UnparsableExtraVarsIgnored ==
    /\ C38_Unparsable =>
          /\ toolOut.result.invoked
          /\ toolOut.result.passed.ExtraVars = {}
          /\ toolOut.result.passed.JobTemplate = toolOut.raw.job_template.text
          /\ toolOut.result.isError <=> toolOut.result.cause # NoErr
          /\ toolOut.result.cause \in
                {NoErr, "job_template is required", "failed to launch AWX job"}
          /\ toolOut.raw.job_template.text # ""
                => toolOut.result.posted =
                      <<[has_extra_vars |-> FALSE, extra_vars |-> {}]>>
    /\ (toolOut.tool = "launch_awx_job" /\ toolOut.raw.job_template.set
            /\ C38_StringObject(C38_Text))
          => /\ Unmarshal(C38_Text).ok
             /\ toolOut.result.passed.ExtraVars =
                   {[key |-> C38_Text[2 + 4 * j].text, value |-> C38_Text[4 + 4 * j].text] :
                        j \in 0..((Len(C38_Text) - 5) \div 4)}

\* a call with {"env":"prod","n":1}, whose first member the decoder had
\* stored, launched the job deploy without extra variables
C38_Witness ==
    /\ C38_Unparsable
    /\ Len(C38_Text) = 9 /\ C38_Text[4] = Str("prod") /\ C38_Text[8] = Num("1")
    /\ Unmarshal(C38_Text).map # {}
    /\ toolOut.result.invoked /\ ~toolOut.result.isError
    /\ toolOut.result.passed.JobTemplate = "deploy"
    /\ toolOut.result.posted = <<[has_extra_vars |-> FALSE, extra_vars |-> {}]>>

InitLaunch ==
    /\ now = 0 /\ advances = 0 /\ CacheInit /\ ClientIdle(0) /\ LaunchIdle /\ RestIdle
    /\ baseURL \in BaseURLs
    /\ srvTemplates \in LaunchTemplateLists

NextLaunch ==
    \/ \E n \in Identifiers : LaunchBegin(n)
    \/ \E o \in Outcomes : LaunchFetch(o)
    \/ \E o \in ProbeOutcomes : LaunchProbe(o)
    \/ \E o \in AttemptOutcomes : LaunchAttempt(o)
    \/ LaunchSleep
    \/ \E d \in LaunchDeltas : Advance(d)

SpecLaunch == InitLaunch /\ [][NextLaunch]_vars

CancelIdentifiers == {<<"deploy">>, <<"7">>, <<"nope">>}

InitLaunchCancel ==
    /\ now = 0 /\ advances = 0 /\ CacheInit /\ ClientIdle(0) /\ LaunchIdle /\ RestIdle
    /\ baseURL = DefaultBaseURL
    /\ srvTemplates \in LaunchTemplateLists

NextLaunchCancel ==
    \/ \E n \in CancelIdentifiers : LaunchBegin(n)
    \/ \E o \in Outcomes \cup {"canceled"} : LaunchFetch(o)
    \/ \E o \in ProbeOutcomes \cup {CanceledOutcome} : LaunchProbe(o)
    \/ \E o \in AttemptOutcomes \cup TimeoutOutcomes \cup {CanceledOutcome} : LaunchAttempt(o)
    \/ LaunchSleep
    \/ CallerCancel

\* launches whose caller may cancel its ctx at any stage
SpecLaunchCancel == InitLaunchCancel /\ [][NextLaunchCancel]_vars

InitClient ==
    /\ now = 0 /\ advances = 0 /\ CacheInit /\ ClientIdle(MaxOps) /\ LaunchIdle /\ RestIdle
    /\ baseURL = DefaultBaseURL /\ srvTemplates = InitTemplates

ClientStep(seq) ==
    \/ \E w \in Workers, id \in JobIDs : GetJobBegin(w, id, seq)
    \/ \E w \in Workers : GetJobReceive(w)
    \/ \E w \in Workers : GetJobTemplatesBegin(w, seq)
    \/ \E w \in Workers : GetJobTemplatesReceive(w)
    \/ \E w \in Workers : GetInventoriesBegin(w, seq)
    \/ \E w \in Workers : GetInventoriesReceive(w)
    \/ \E w \in Workers : GetProjectsBegin(w, seq)
    \/ \E w \in Workers : GetProjectsReceive(w)
    \/ \E w \in Workers, n \in NewNames : CreateJobTemplateBegin(w, n, seq)
    \/ \E w \in Workers : CreateJobTemplateReceive(w)
    \/ \E w \in Workers, id \in JobIDs : CancelJobBegin(w, id, seq)
    \/ \E w \in Workers : CancelJobReceive(w)
    \/ \E w \in Workers : GetJobsBegin(w, seq)
    \/ \E w \in Workers : GetJobsReceive(w)
    \/ \E w \in Workers, o \in Outcomes : BackendServe(w, o)
    \/ \E w \in Workers : Return(w)
    \/ \E w \in Workers : ClearCache(w, seq)
    \/ \E id \in JobIDs : BackendProgress(id)
    \/ \E d \in ClientDeltas : Advance(d)

NextClientSeq == ClientStep(TRUE)

InitTemplatesRun ==
    /\ now = 0 /\ advances = 0 /\ CacheInit /\ ClientIdle(MaxTplOps) /\ LaunchIdle /\ RestIdle
    /\ baseURL = DefaultBaseURL /\ srvTemplates = InitTemplates

NextTemplatesSeq ==
    \/ \E w \in Workers : GetJobTemplatesBegin(w, TRUE)
    \/ \E w \in Workers : GetJobTemplatesReceive(w)
    \/ \E w \in Workers, n \in NewNames : CreateJobTemplateBegin(w, n, TRUE)
    \/ \E w \in Workers : CreateJobTemplateReceive(w)
    \/ \E w \in Workers, o \in Outcomes : BackendServe(w, o)
    \/ \E w \in Workers : Return(w)
    \/ \E w \in Workers : ClearCache(w, TRUE)
    \/ \E d \in ClientDeltas : Advance(d)

\* every client operation; invocations run one after the other
SpecClientSeq == InitClient /\ [][NextClientSeq]_vars
\* template listing and creation only; invocations run one after the other
SpecTemplatesSeq == InitTemplatesRun /\ [][NextTemplatesSeq]_vars

InitResolve ==
    /\ now = 0 /\ advances = 0 /\ CacheInit /\ ClientIdle(0) /\ LaunchIdle
    /\ baseURL = DefaultBaseURL /\ srvTemplates = InitTemplates
    /\ AuthIdle(TokenConfig) /\ PollIdle /\ SvcIdle
    /\ rlist \in ResolveLists /\ ResolveIdle

\* the two lookups applied to template lists and identifiers
SpecResolve == InitResolve /\ [][NextResolve]_vars

InitAuth ==
    /\ now = 0 /\ advances = 0 /\ CacheInit /\ ClientIdle(MaxAuthOps) /\ LaunchIdle
    /\ baseURL = DefaultBaseURL /\ srvTemplates = InitTemplates
    /\ ResolveIdle /\ rlist = <<>> /\ PollIdle /\ SvcIdle
    /\ \E config \in AuthConfigs : AuthIdle(config)

NextAuth ==
    \/ \E a \in AuthThreads : AuthBegin(a)
    \/ \E a \in AuthThreads, o \in StrategyOutcomes : AuthBasic(a, o)
    \/ \E a \in AuthThreads, o \in StrategyOutcomes : AuthTokens(a, o)
    \/ \E a \in AuthThreads, o \in StrategyOutcomes : AuthLegacy(a, o)
    \/ \E a \in AuthThreads, word \in {"ptr", "len"} : AuthStoreWord(a, word)
    \/ \E w \in Workers : GetJobTemplatesBegin(w, TRUE)
    \/ \E w \in Workers : GetJobTemplatesReceive(w)
    \/ \E w \in Workers : GetInventoriesBegin(w, TRUE)
    \/ \E w \in Workers : GetInventoriesReceive(w)
    \/ \E w \in Workers, o \in Outcomes : BackendServe(w, o)
    \/ \E w \in Workers : Return(w)

\* concurrent authenticate calls beside client operations run one after the
\* other, for every kind of configured credentials
SpecAuth == InitAuth /\ [][NextAuth]_vars

InitPoll ==
    /\ now = 0 /\ advances = 0 /\ CacheInit /\ ClientIdle(MaxPolls) /\ LaunchIdle
    /\ baseURL = DefaultBaseURL /\ srvTemplates = InitTemplates
    /\ RestIdle

NextPollSeq ==
    \/ \E w \in Workers, id \in JobIDs : GetJobBegin(w, id, TRUE)
    \/ \E w \in Workers : GetJobReceive(w)
    \/ \E w \in Workers, id \in InvalidJobIDs : CheckJobStatusInvalid(w, id, TRUE)
    \/ \E w \in Workers, id \in JobIDs : CancelJobBegin(w, id, TRUE)
    \/ \E w \in Workers, id \in InvalidJobIDs : CancelJobInvalid(w, id, TRUE)
    \/ \E w \in Workers : CancelJobReceive(w)
    \/ \E w \in Workers, o \in Outcomes : BackendServe(w, o)
    \/ \E w \in Workers : Return(w)
    \/ \E w \in Workers : ClearCache(w, TRUE)
    \/ \E id \in JobIDs : BackendProgress(id)
    \/ \E d \in ClientDeltas : Advance(d)

\* status polls, cancellation and cache clearing, one after the other, while
\* the backend moves the job along
SpecPollSeq == InitPoll /\ [][NextPollSeq]_vars

InitLists ==
    /\ now = 0 /\ advances = 0 /\ CacheInit /\ ClientIdle(MaxListOps) /\ LaunchIdle
    /\ baseURL = DefaultBaseURL /\ srvTemplates = InitTemplates
    /\ RestIdle

NextListsSeq ==
    \/ \E w \in Workers : GetJobTemplatesBegin(w, TRUE)
    \/ \E w \in Workers : GetJobTemplatesReceive(w)
    \/ \E w \in Workers : GetInventoriesBegin(w, TRUE)
    \/ \E w \in Workers : GetInventoriesReceive(w)
    \/ \E w \in Workers : GetProjectsBegin(w, TRUE)
    \/ \E w \in Workers : GetProjectsReceive(w)
    \/ \E w \in Workers, n \in NewNames : CreateJobTemplateBegin(w, n, TRUE)
    \/ \E w \in Workers : CreateJobTemplateReceive(w)
    \/ \E w \in Workers, o \in Outcomes : BackendServe(w, o)
    \/ \E w \in Workers : Return(w)
    \/ \E w \in Workers : ClearCache(w, TRUE)
    \/ \E d \in ListDeltas : Advance(d)

\* the three cached list operations, template creation and cache clearing,
\* one after the other
SpecListsSeq == InitLists /\ [][NextListsSeq]_vars

InitProm ==
    /\ now = 0 /\ advances = 0 /\ CacheInit /\ ClientIdle(0) /\ LaunchIdle /\ RestIdle
    /\ baseURL = DefaultBaseURL /\ srvTemplates = InitTemplates

NextProm ==
    \/ \E q \in Queries : QueryBegin(q)
    \/ \E q \in Queries : QueryRangeBegin(q)
    \/ \E o \in PromOutcomes : PromServe(o)
    \/ QueryReceive
    \/ QueryRangeReceive
    \/ PromReturn
    \/ PromSweep
    \/ \E d \in PromDeltas : Advance(d)

\* instant and range queries, one after the other, while time passes and
\* the cache's sweeper runs
SpecProm == InitProm /\ [][NextProm]_vars

InitScale ==
    /\ now = ScaleEpoch /\ advances = 0 /\ CacheInit /\ ClientIdle(0) /\ LaunchIdle
    /\ RestIdle
    /\ baseURL = DefaultBaseURL /\ srvTemplates = InitTemplates

NextScale ==
    \/ \E a \in ScaleActions, s \in ScaleServices, r \in ScaleReplicas,
          t \in ScaleThresholds : AutoscaleCall(a, s, r, t)
    \/ \E d \in ScaleDeltas : Advance(d)

\* Autoscale called with every combination of arguments, at several times
SpecScale == InitScale /\ [][NextScale]_vars

InitHealth ==
    /\ now = ScaleEpoch /\ advances = 0 /\ CacheInit /\ ClientIdle(0) /\ LaunchIdle
    /\ RestIdle
    /\ baseURL = DefaultBaseURL /\ srvTemplates = InitTemplates

NextHealth ==
    \/ \E c \in HealthComponents, deep \in BOOLEAN : CheckHealthCall(c, deep)
    \/ \E d \in HealthDeltas : Advance(d)

\* CheckHealth called for every component argument, at several times
SpecHealth == InitHealth /\ [][NextHealth]_vars

InitTools == InitScale

NextTools ==
    \/ \E d \in ScaleDeltas : Advance(d)
    \/ \E j \in IntArgs, o \in FacadeOutcomes : CheckAWXJobStatusCall(j, o)
    \/ \E a \in ActionArgs, r \in IntArgs :
           AutoscaleAutosphereCall(a, "", r, "")
    \/ \E n \in NameArgs, i \in {Absent, Arg(<<"2">>), Arg(<<"x">>)},
          p \in {Arg(<<"3">>), Arg(<<"y">>)}, b \in PlaybookArgs,
          v \in IntArgs, o \in FacadeOutcomes :
           CreateJobTemplateCall(n, i, p, b, v, o)
    \/ \E j \in TemplateArgs, x \in ExtraVarsArgs, o \in FacadeOutcomes :
           LaunchAWXJobCall(j, x, o)

SpecTools == InitTools /\ [][NextTools]_vars

InitConc ==
    /\ now = 0 /\ advances = 0 /\ CacheInit /\ ClientIdle(MaxConcOps) /\ LaunchIdle
    /\ RestIdle
    /\ baseURL = DefaultBaseURL /\ srvTemplates = InitTemplates

NextConc ==
    \/ \E w \in Workers, id \in JobIDs : GetJobBegin(w, id, FALSE)
    \/ \E w \in Workers : GetJobReceive(w)
    \/ \E w \in Workers : GetJobTemplatesBegin(w, FALSE)
    \/ \E w \in Workers : GetJobTemplatesReceive(w)
    \/ \E w \in Workers, n \in NewNames : CreateJobTemplateBegin(w, n, FALSE)
    \/ \E w \in Workers : CreateJobTemplateReceive(w)
    \/ \E w \in Workers, o \in ConcOutcomes : BackendServe(w, o)
    \/ \E w \in Workers : Return(w)
    \/ \E id \in JobIDs : BackendProgress(id)

\* GetJob, GetJobTemplates and CreateJobTemplate invocations overlapping on
\* two workers
SpecConc == InitConc /\ [][NextConc]_vars

InitHold ==
    /\ now = 0 /\ advances = 0 /\ CacheInit /\ ClientIdle(MaxOps) /\ LaunchIdle
    /\ RestIdle
    /\ baseURL = DefaultBaseURL /\ srvTemplates = InitTemplates

NextHold ==
    \/ \E w \in Workers, id \in JobIDs : GetJobBegin(w, id, TRUE)
    \/ \E w \in Workers : GetJobReceive(w)
    \/ \E w \in Workers : GetJobTemplatesBegin(w, TRUE)
    \/ \E w \in Workers : GetJobTemplatesReceive(w)
    \/ \E w \in Workers, o \in ConcOutcomes : BackendServe(w, o)
    \/ \E w \in Workers : Return(w)
    \/ \E n \in ConcIdentifiers : LaunchBegin(n)
    \/ \E o \in ConcOutcomes : LaunchFetch(o)
    \/ \E o \in ConcProbeOutcomes : LaunchProbe(o)
    \/ \E o \in ConcAttemptOutcomes : LaunchAttempt(o)
    \/ LaunchSleep

\* GetJob and GetJobTemplates invocations, one after the other, next to
\* Launch calls, all using the one cache
SpecHold == InitHold /\ [][NextHold]_vars

InitCache ==
    /\ now = 0 /\ advances = 0 /\ CacheInit /\ ClientIdle(0) /\ LaunchIdle /\ RestIdle
    /\ baseURL = DefaultBaseURL /\ srvTemplates = InitTemplates

NextCache ==
    \/ \E t \in Threads, k \in Keys : GetLookup(t, k)
    \/ \E t \in Threads : GetRecord(t)
    \/ \E t \in Threads : GetReturn(t)
    \/ \E t \in Threads, k \in Keys, v \in Values, ttl \in TTLs : SetStore(t, k, v, ttl)
    \/ \E t \in Threads : SetRecord(t)
    \/ \E t \in Threads : SetSize(t)
    \/ \E t \in Threads, k \in Keys : DeleteRemove(t, k)
    \/ \E t \in Threads : DeleteSize(t)
    \/ \E t \in Threads : ClearMap(t)
    \/ \E t \in Threads : ClearSize(t)
    \/ \E t \in Threads : Close(t)
    \/ SweepRemove
    \/ SweepRecord
    \/ SweepSize
    \/ SweeperStop
    \/ \E d \in CacheDeltas : Advance(d)

SpecCache == InitCache /\ [][NextCache]_vars

\* the key, value, lifetime and clock step of the fair exploration
FairKeys == {<<"k1">>}
FairValues == {"v1"}
FairTTLs == {0}
FairDeltas == {60}

NextCacheFair ==
    \/ \E t \in Threads, k \in FairKeys : GetLookup(t, k)
    \/ \E t \in Threads, k \in FairKeys : GetCall(t, k)
    \/ \E t \in Threads : GetWake(t)
    \/ \E t \in Threads : GetRecord(t)
    \/ \E t \in Threads : GetReturn(t)
    \/ \E t \in Threads, k \in FairKeys, v \in FairValues, ttl \in FairTTLs :
           SetStore(t, k, v, ttl)
    \/ \E t \in Threads : SetRecord(t)
    \/ \E t \in Threads : SetSize(t)
    \/ \E t \in Threads, k \in FairKeys : DeleteRemove(t, k)
    \/ \E t \in Threads : DeleteSize(t)
    \/ SweepRemove
    \/ SweepRecord
    \/ SweepSize
    \/ \E d \in FairDeltas : Advance(d)

\* a goroutine that can take its next step is eventually scheduled: one that
\* holds c.mu runs on to its Unlock, one blocked in RLock is woken once no
\* writer holds c.mu.  Calls arrive, the ticker fires and the clock moves
\* without any such promise.
FairScheduling ==
    /\ \A t \in Threads :
          /\ WF_vars(GetWake(t)) /\ WF_vars(GetRecord(t)) /\ WF_vars(GetReturn(t))
          /\ WF_vars(SetRecord(t)) /\ WF_vars(SetSize(t)) /\ WF_vars(DeleteSize(t))
    /\ WF_vars(SweepRecord) /\ WF_vars(SweepSize)

\* Get, Set, Delete and the sweeper under fair scheduling
SpecCacheFair == InitCache /\ [][NextCacheFair]_vars /\ FairScheduling

NextCacheStats ==
    \/ NextCache
    \/ \E t \in Threads : GetStats(t)

\* the cache's operations with GetStats calls among them
SpecCacheStats == InitCache /\ [][NextCacheStats]_vars

====
